---------------------------- MODULE Spec2Model ----------------------------
(***************************************************************************)
(* A model of the FHIR read/compose/submit contract of the OnTarget EHR    *)
(* interface: the two submission forms (LabValueForm, ConsultationForm),   *)
(* the formatters that read back what they build, and the seed script.     *)
(*                                                                         *)
(* Strings the code inspects character by character (numeric input, free   *)
(* text, XHTML) are sequences of one-token strings; strings the code only  *)
(* copies or compares (codes, units, ids) are atomic.                      *)
(***************************************************************************)
EXTENDS Integers, Sequences, FiniteSets, TLC

VARIABLES
    unit,       \* which program runs: "LabValueForm", "ConsultationForm" or "script"
    patient,    \* the `patient` prop of the mounted form
    formData,   \* useState formData of the mounted form
    loading,    \* useState loading
    error,      \* useState error: a message (token sequence); <<>> models null
    success,    \* useState success
    pc,         \* position of handleSubmit ("idle", "awaiting", "reading",
                \* "settled") or of the seed script ("start", ..., "done", "exited")
    requests,   \* the fetch() calls issued by the form, with their outcome so far
    idx,        \* handleSubmit's loop variable i (1-based) while a body is read
    errors,     \* handleSubmit's local `errors` array
    timer,      \* the form instances whose setTimeout(..., 1500) of a success is pending
    closed,     \* TRUE once onClose has been called (the form is unmounted)
    edits,      \* number of handleChange events so far (bounded by MaxEdits)
    script,     \* the seed script's locals: patients, types and entries still
                \* to go in its cleanup loops, and deleteResource's cascade
    views,      \* the state of each list view: its list, loading, error and
                \* expanded, and the GETs it has outstanding or has just settled
    fetches,    \* number of GETs the list views have issued (bounded by MaxFetches)
    args,       \* the argument of the display function that is called
    result,     \* what the display function has returned
    instance    \* the number of the form instance PatientList has mounted last

vars == <<unit, patient, formData, loading, error, success, pc, requests,
          idx, errors, timer, closed, edits, script, views, fetches, args, result, instance>>

----------------------------------------------------------------------------
(* Bounds of the model *)

\* handleChange events in one behaviour
MaxEdits == 2

\* fractional digits a modelled Number keeps
FracDigits == 2

\* patients the organization has on the server before the seed script runs
MaxPatients == 2

\* resources of one type a patient has on the server before the script runs
MaxEntries == 2

\* GETs the list views issue in one behaviour
MaxFetches == 3

\* Observations in the Bundle PatientObservations groups
MaxObservations == 3

\* form instances PatientList mounts one after the other
MaxMounts == 2

----------------------------------------------------------------------------
(* Program constants *)

FHIR_BASE_URL == "https://hapi.fhir.org/baseR4"
ORGANIZATION_ID == "53655767"

NoError == <<>>

----------------------------------------------------------------------------
(* Strings *)

RECURSIVE Pow10(_)
Pow10(n) == IF n = 0 THEN 1 ELSE 10 * Pow10(n - 1)

Scale == Pow10(FracDigits)

WhiteSpace == {" "}

DigitChars == <<"0", "1", "2", "3", "4", "5", "6", "7", "8", "9">>

IsDigit(c) == \E d \in 1..10 : DigitChars[d] = c

DigitVal(c) == (CHOOSE d \in 1..10 : DigitChars[d] = c) - 1

RECURSIVE TrimStart(_)
TrimStart(s) ==
    IF s # <<>> /\ Head(s) \in WhiteSpace THEN TrimStart(Tail(s)) ELSE s

RECURSIVE TrimEnd(_)
TrimEnd(s) ==
    IF s # <<>> /\ s[Len(s)] \in WhiteSpace
    THEN TrimEnd(SubSeq(s, 1, Len(s) - 1))
    ELSE s

\* String.prototype.trim
Trim(s) == TrimEnd(TrimStart(s))

\* the longest prefix of s made of decimal digits
RECURSIVE DigitPrefix(_)
DigitPrefix(s) ==
    IF s # <<>> /\ IsDigit(Head(s)) THEN <<Head(s)>> \o DigitPrefix(Tail(s)) ELSE <<>>

RECURSIVE DigitsValue(_)
DigitsValue(ds) ==
    IF ds = <<>> THEN 0
    ELSE 10 * DigitsValue(SubSeq(ds, 1, Len(ds) - 1)) + DigitVal(ds[Len(ds)])

\* the fraction digits ds as a count of 10^-FracDigits units
FractionValue(ds) ==
    LET kept == SubSeq(ds, 1, IF Len(ds) < FracDigits THEN Len(ds) ELSE FracDigits)
    IN  DigitsValue(kept) * Pow10(FracDigits - Len(kept))

NaN == [isNaN |-> TRUE, val |-> 0]

Num(v) == [isNaN |-> FALSE, val |-> v]

\* Global parseFloat on a string: leading white space is skipped, then the
\* longest prefix that is a decimal literal is read and the rest is ignored;
\* NaN when there is no such prefix. A Number is val / Scale.
parseFloat(s) ==
    LET t        == TrimStart(s)
        signed   == t # <<>> /\ Head(t) \in {"-", "+"}
        neg      == t # <<>> /\ Head(t) = "-"
        body     == IF signed THEN Tail(t) ELSE t
        intDs    == DigitPrefix(body)
        rest     == SubSeq(body, Len(intDs) + 1, Len(body))
        hasPoint == rest # <<>> /\ Head(rest) = "."
        fracDs   == IF hasPoint THEN DigitPrefix(Tail(rest)) ELSE <<>>
        mag      == DigitsValue(intDs) * Scale + FractionValue(fracDs)
    IN  IF intDs = <<>> /\ fracDs = <<>> THEN NaN
        ELSE Num(IF neg THEN 0 - mag ELSE mag)

RECURSIVE NatToString(_)
NatToString(n) ==
    IF n < 10 THEN <<DigitChars[n + 1]>>
    ELSE NatToString(n \div 10) \o <<DigitChars[(n % 10) + 1]>>

RECURSIVE FractionToString(_, _)
FractionToString(f, width) ==
    IF f = 0 THEN <<>>
    ELSE <<DigitChars[(f \div Pow10(width - 1)) + 1]>>
            \o FractionToString(f % Pow10(width - 1), width - 1)

\* Number::toString of a finite Number: the shortest decimal that reads back
NumberToString(n) ==
    IF n.isNaN THEN <<"N", "a", "N">>
    ELSE LET mag  == IF n.val < 0 THEN 0 - n.val ELSE n.val
             frac == FractionToString(mag % Scale, FracDigits)
         IN  (IF n.val < 0 THEN <<"-">> ELSE <<>>)
                \o NatToString(mag \div Scale)
                \o (IF frac = <<>> THEN <<>> ELSE <<".">> \o frac)

\* parseFloat applied to a Number converts it to a string first
parseFloatOfNumber(n) == parseFloat(NumberToString(n))

RECURSIVE Join(_, _)
Join(parts, sep) ==
    IF parts = <<>> THEN <<>>
    ELSE IF Len(parts) = 1 THEN Head(parts)
    ELSE Head(parts) \o sep \o Join(Tail(parts), sep)

Contains(s, tok) == \E i \in DOMAIN s : s[i] = tok

----------------------------------------------------------------------------
(* Inputs *)

\* The `patient` prop: a Patient resource as far as the forms read it. An
\* absent `given` reads like an empty list and an absent `family` like "".
Patients ==
    { [id |-> "101", name |-> << [given |-> <<"John">>, family |-> "Doe"] >>],
      [id |-> "102", name |-> << >>],
      [id |-> "103", name |-> << [given |-> << >>, family |-> ""] >>] }

\* new Date().toISOString().split('T')[0] at mount time
Today == "2026-11-02"

Dates == {Today, "2026-10-01"}

\* what a user may have typed into the gfr and hemoglobin inputs
LabInputs ==
    { << >>, <<" ">>, <<"x">>, <<"-", "1">>, <<"0">>,
      <<"1", "4", ".", "5">>, <<"9", "0", ".", "0">> }

\* the six free-text fields of the consultation form, in form order
SectionFields ==
    <<"chiefComplaint", "historyOfPresentIllness", "physicalExamination",
      "assessment", "plan", "notes">>

\* what a user may have typed into a textarea: nothing, plain text, white
\* space only, text holding markup
ConsultInputs ==
    { << >>, <<"stable">>, <<" ">>, <<"a", "</div>", "b">> }

\* HTTP statuses of a response that is not ok
FailureStatuses == {422}

\* what response.json() of a failed response yields: a rejection
\* ("unparseable"), the JSON value null, or an object whose
\* issue[0].diagnostics is the given string ("" when it has none)
FailureBodies ==
    { [kind |-> "unparseable", diagnostics |-> ""],
      [kind |-> "null", diagnostics |-> ""],
      [kind |-> "object", diagnostics |-> ""],
      [kind |-> "object", diagnostics |-> "invalid code"] }

NoBody == [kind |-> "none", diagnostics |-> ""]

\* how one fetch() settles: resolved with a response, or rejected
Outcomes ==
    { [state |-> "resolved", ok |-> TRUE, status |-> 201, body |-> NoBody] }
    \cup { [state |-> "resolved", ok |-> FALSE, status |-> st, body |-> b] :
              st \in FailureStatuses, b \in FailureBodies }
    \cup { [state |-> "rejected", ok |-> FALSE, status |-> 0, body |-> NoBody] }

Pending == [state |-> "pending", ok |-> FALSE, status |-> 0, body |-> NoBody]

\* fetch(url, {method: 'POST', body: JSON.stringify(resource)})
PostRequest(resourceType, resource) ==
    [method |-> "POST", url |-> <<FHIR_BASE_URL, "/", resourceType>>,
     body |-> resource, outcome |-> Pending]

\* the list views: PatientList and the six sections of a patient card
SubViews ==
    {"PatientConditions", "PatientProcedures", "PatientMedications",
     "PatientDiagnosticReports", "PatientObservations", "PatientConsultations"}

Views == {"PatientList"} \cup SubViews

\* the useState values a view is mounted with; PatientList has no
\* `expanded` state and is shown as always expanded
InitialView(v) ==
    [list |-> << >>, loading |-> TRUE, error |-> NoError,
     expanded |-> (v = "PatientList"), requests |-> << >>]

\* the list views as they are mounted
NoViews == [v \in Views |-> InitialView(v)]

\* no display function is called
NoArgs == [fn |-> "none"]
NoResult == [returned |-> FALSE]

\* the ids insertJohnDoeHistory keeps of the resources it has created, ""
\* before the creation
NoIds ==
    [carotidStenosisId |-> "", cadConditionId |-> "", hypertensionId |-> "",
     createdEcgOrder |-> "", createdStressTestOrder |-> "", createdCathOrder |-> "",
     createdCarotidUsOrder |-> ""]

\* the locals of the seed script outside a run of its cleanup loops
NoLocals ==
    [patients |-> << >>, types |-> << >>, entries |-> << >>, cascade |-> FALSE,
     attempts |-> 0, response |-> "", returned |-> << >>, created |-> NoIds,
     thrown |-> ""]

----------------------------------------------------------------------------
(* LabValueForm *)

\* a reference that leaves out the resource type; C5 tells it from
\* PatientReference
BareIdReference(id) == <<id>>

\* `Patient/${id}`
PatientReference(id) == <<"Patient/", id>>

\* `Organization/${ORGANIZATION_ID}`
OrganizationReference == <<"Organization/", ORGANIZATION_ID>>

\* a category array with a second entry; C6 tells it from LaboratoryCategory
LaboratoryAndExamCategory ==
    << [coding |-> << [system |-> "http://terminology.hl7.org/CodeSystem/observation-category",
                       code |-> "laboratory",
                       display |-> "Laboratory"] >>,
        text |-> "Laboratory"],
       [coding |-> << [system |-> "http://terminology.hl7.org/CodeSystem/observation-category",
                       code |-> "exam",
                       display |-> "Exam"] >>,
        text |-> "Exam"] >>

\* the category array createObservation gives every Observation
LaboratoryCategory ==
    << [coding |-> << [system |-> "http://terminology.hl7.org/CodeSystem/observation-category",
                       code |-> "laboratory",
                       display |-> "Laboratory"] >>,
        text |-> "Laboratory"] >>

\* subject.display of both builders
SubjectDisplay(p) ==
    IF p.name # << >>
    THEN LET first == p.name[1]
             given == Join([i \in DOMAIN first.given |-> <<first.given[i]>>], <<" ">>)
             family == IF first.family = "" THEN << >> ELSE <<first.family>>
         IN  Trim(given \o <<" ">> \o family)
    ELSE <<"Unknown">>

\* the patient name in the header of both forms
formatPatientName(p) ==
    IF p.name = << >> THEN <<"Unknown">>
    ELSE LET first == p.name[1]
             given == Join([i \in DOMAIN first.given |-> <<first.given[i]>>], <<" ">>)
             family == IF first.family = "" THEN << >> ELSE <<first.family>>
             shown == Trim(given \o <<" ">> \o family)
         IN  IF shown = << >> THEN <<"Unknown">> ELSE shown

createObservation(p, fd, code, display, value, unitName, unitSystem) ==
    [resourceType |-> "Observation",
     status |-> "final",
     category |-> LaboratoryCategory,
     code |-> [coding |-> << [system |-> "http://loinc.org", code |-> code, display |-> display] >>,
               text |-> display],
     subject |-> [reference |-> PatientReference(p.id), display |-> SubjectDisplay(p)],
     effectiveDateTime |-> fd.effectiveDateTime,
     valueQuantity |-> [value |-> parseFloatOfNumber(value), unit |-> unitName,
                        system |-> unitSystem, code |-> unitName],
     performer |-> << [reference |-> OrganizationReference,
                       display |-> "Demo General Hospital"] >>]

\* formData.gfr && formData.gfr.trim() !== ''
Provided(s) == s # << >> /\ Trim(s) # << >>

\* a validation that also turns away zero; C1 tells it from Invalid
InvalidOrZero(v) == v.isNaN \/ v.val <= 0

\* a validation that lets negative numbers pass; C2 tells it from Invalid
InvalidIfNaN(v) == v.isNaN

\* isNaN(v) || v < 0
Invalid(v) == v.isNaN \/ v.val < 0

gfrObservation(p, fd) ==
    createObservation(p, fd, "33914-3", "Glomerular filtration rate/1.73 sq M.predicted",
                      parseFloat(fd.gfr), "mL/min/1.73m2", "http://unitsofmeasure.org")

hgbObservation(p, fd) ==
    createObservation(p, fd, "718-7", "Hemoglobin [Mass/volume] in Blood",
                      parseFloat(fd.hemoglobin), "g/dL", "http://unitsofmeasure.org")

\* The part of LabValueForm.handleSubmit that runs before the requests are
\* sent: the observations to submit, or the Error thrown.
LabBuild(p, fd) ==
    LET gfrObs == IF Provided(fd.gfr) THEN <<gfrObservation(p, fd)>> ELSE << >>
        hgbObs == IF Provided(fd.hemoglobin) THEN <<hgbObservation(p, fd)>> ELSE << >>
    IN  IF Provided(fd.gfr) /\ Invalid(parseFloat(fd.gfr))
        THEN [thrown |-> TRUE, message |-> <<"GFR must be a valid positive number">>,
              observations |-> << >>]
        ELSE IF Provided(fd.hemoglobin) /\ Invalid(parseFloat(fd.hemoglobin))
        THEN [thrown |-> TRUE, message |-> <<"Hemoglobin must be a valid positive number">>,
              observations |-> gfrObs]
        ELSE IF gfrObs \o hgbObs = << >>
        THEN [thrown |-> TRUE, message |-> <<"Please enter at least one lab value">>,
              observations |-> << >>]
        ELSE [thrown |-> FALSE, message |-> << >>, observations |-> gfrObs \o hgbObs]

----------------------------------------------------------------------------
(* State shared by the two forms *)

\* React drops state updates of an unmounted component
SetForm(l, e, s) ==
    IF closed
    THEN UNCHANGED <<loading, error, success>>
    ELSE loading' = l /\ error' = e /\ success' = s

\* a submit button that is disabled only while loading
SubmitDisabledWhileLoading == loading

\* disabled={loading || success} of the submit button of both forms
SubmitDisabled == loading \/ success

\* catch (err) { setError(err.message) } finally { setLoading(false) }
Throw(message) ==
    /\ pc' = "settled"
    /\ idx' = 0
    /\ errors' = << >>
    /\ SetForm(FALSE, message, success)
    /\ UNCHANGED timer

\* setSuccess(true); setTimeout(() => { onSuccess?.(); onClose() }, 1500);
\* finally { setLoading(false) }
Succeed ==
    /\ pc' = "settled"
    /\ idx' = 0
    /\ errors' = << >>
    /\ SetForm(FALSE, error, TRUE)
    /\ timer' = timer \cup {instance}

\* err.message of the TypeError a fetch() rejects with
FetchFailedMessage == <<"Failed to fetch">>

\* err.message of the TypeError of `errorData.issue` when errorData is null
NullBodyMessage == <<"Cannot read properties of null (reading 'issue')">>

\* errorData.issue?.[0]?.diagnostics || ''
Diagnostics(body) ==
    IF body.kind = "object" /\ body.diagnostics # "" THEN <<body.diagnostics>> ELSE << >>

AllResolved(reqs) == \A k \in DOMAIN reqs : reqs[k].outcome.state = "resolved"

\* the first index from i on whose response is not ok, 0 when there is none
NextFailed(reqs, i) ==
    IF \E j \in i..Len(reqs) : ~reqs[j].outcome.ok
    THEN CHOOSE j \in i..Len(reqs) :
            /\ ~reqs[j].outcome.ok
            /\ \A k \in i..(j - 1) : reqs[k].outcome.ok
    ELSE 0

\* the state a form is mounted with
InitialFormData(u) ==
    IF u = "LabValueForm"
    THEN [gfr |-> << >>, hemoglobin |-> << >>, effectiveDateTime |-> Today]
    ELSE [date |-> Today, chiefComplaint |-> << >>, historyOfPresentIllness |-> << >>,
          physicalExamination |-> << >>, assessment |-> << >>, plan |-> << >>,
          notes |-> << >>]

\* PatientList unmounts the form: its state is gone (shown here as the
\* values it was mounted with), its handleSubmit and its timer live on
Unmount ==
    /\ closed' = TRUE
    /\ formData' = InitialFormData(unit)
    /\ loading' = FALSE
    /\ error' = NoError
    /\ success' = FALSE
    /\ edits' = 0

\* the timeout of a successful submission fires: onSuccess?.(); onClose(), both
\* of which set the selected patient of PatientList to null, whichever form is open
TimerFires ==
    /\ \E scheduler \in timer : timer' = timer \ {scheduler}
    /\ Unmount
    /\ UNCHANGED <<instance, args, result, views, fetches, script, unit, patient, pc, requests, idx, errors>>

\* the close button or the overlay is clicked
OnClose ==
    /\ unit \in {"LabValueForm", "ConsultationForm"}
    /\ ~closed
    /\ Unmount
    /\ UNCHANGED <<instance, args, result, views, fetches, script, unit, patient, pc, requests, idx, errors, timer>>

\* 'Add Lab Values' or 'Add Consultation' of a patient card is clicked while no
\* form of that kind is open: PatientList mounts a new instance of the form for
\* that patient. The timers of earlier instances stay scheduled. The model follows
\* the handleSubmit of one instance at a time and leaves the fields of a form
\* opened again as they are mounted.
OpenForm ==
    /\ unit \in {"LabValueForm", "ConsultationForm"}
    /\ closed
    /\ pc \in {"idle", "settled"}
    /\ instance < MaxMounts
    /\ \E p \in Patients : patient' = p
    /\ instance' = instance + 1
    /\ closed' = FALSE
    /\ formData' = InitialFormData(unit)
    /\ loading' = FALSE
    /\ error' = NoError
    /\ success' = FALSE
    /\ pc' = "idle"
    /\ requests' = << >>
    /\ idx' = 0
    /\ errors' = << >>
    /\ edits' = MaxEdits
    /\ UNCHANGED <<unit, timer, script, views, fetches, args, result>>

----------------------------------------------------------------------------
(* LabValueForm: the state machine *)

InitLabValueForm ==
    /\ unit = "LabValueForm"
    /\ patient \in Patients
    /\ formData = InitialFormData("LabValueForm")
    /\ loading = FALSE
    /\ error = NoError
    /\ success = FALSE
    /\ pc = "idle"
    /\ requests = << >>
    /\ idx = 0
    /\ errors = << >>
    /\ timer = {}
    /\ instance = 1
    /\ closed = FALSE
    /\ edits = 0
    /\ script = NoLocals
    /\ views = NoViews
    /\ fetches = 0
    /\ args = NoArgs
    /\ result = NoResult

\* handleChange of an input of the lab form
LabHandleChange ==
    /\ unit = "LabValueForm"
    /\ ~closed
    /\ edits < MaxEdits
    /\ \/ \E name \in {"gfr", "hemoglobin"}, value \in LabInputs :
              formData' = [formData EXCEPT ![name] = value]
       \/ \E value \in Dates :
              formData' = [formData EXCEPT !.effectiveDateTime = value]
    /\ error' = NoError
    /\ edits' = edits + 1
    /\ pc' = IF pc = "settled" THEN "idle" ELSE pc
    /\ UNCHANGED <<instance, args, result, views, fetches, script, unit, patient, loading, success, requests, idx, errors, timer, closed>>

\* the loop over results from index i on, with `errors` being errs, up to
\* its next await or to the end of handleSubmit
LabCheckResults(reqs, i, errs) ==
    LET j == NextFailed(reqs, i)
    IN  IF j # 0
        THEN /\ pc' = "reading"
             /\ idx' = j
             /\ errors' = errs
             /\ UNCHANGED <<loading, error, success, timer>>
        ELSE IF errs # << >>
        THEN Throw(Join(errs, <<"; ">>))
        ELSE Succeed

\* handleSubmit up to `await Promise.all(...)`, or to its end when it throws
LabHandleSubmit ==
    /\ unit = "LabValueForm"
    /\ ~closed
    /\ ~SubmitDisabled
    /\ LET built == LabBuild(patient, formData)
       IN  IF built.thrown
           THEN /\ requests' = << >>
                /\ Throw(built.message)
           ELSE /\ requests' = [i \in DOMAIN built.observations |->
                                    PostRequest("Observation", built.observations[i])]
                /\ pc' = "awaiting"
                /\ loading' = TRUE
                /\ error' = NoError
                /\ idx' = 0
                /\ errors' = << >>
                /\ UNCHANGED <<success, timer>>
    /\ UNCHANGED <<instance, args, result, views, fetches, script, unit, patient, formData, closed, edits>>

\* one POST of the batch settles; Promise.all resumes handleSubmit when the
\* last one resolves or the first one rejects
LabFetchSettles ==
    /\ unit = "LabValueForm"
    /\ \E i \in DOMAIN requests, o \in Outcomes :
          /\ requests[i].outcome.state = "pending"
          /\ LET reqs == [requests EXCEPT ![i].outcome = o]
             IN  /\ requests' = reqs
                 /\ IF pc # "awaiting"
                    THEN UNCHANGED <<loading, error, success, pc, idx, errors, timer>>
                    ELSE IF o.state = "rejected"
                    THEN Throw(FetchFailedMessage)
                    ELSE IF AllResolved(reqs)
                    THEN LabCheckResults(reqs, 1, << >>)
                    ELSE UNCHANGED <<loading, error, success, pc, idx, errors, timer>>
    /\ UNCHANGED <<instance, args, result, views, fetches, script, unit, patient, formData, closed, edits>>

\* `await results[i].json().catch(() => ({}))` completes and the loop goes on
LabBodyRead ==
    /\ unit = "LabValueForm"
    /\ pc = "reading"
    /\ LET r == requests[idx]
       IN  IF r.outcome.body.kind = "null"
           THEN Throw(NullBodyMessage)
           ELSE LabCheckResults(requests, idx + 1,
                    Append(errors,
                        <<"Failed to create ", r.body.code.text, ": ",
                          ToString(r.outcome.status), " ">>
                            \o Diagnostics(r.outcome.body)))
    /\ UNCHANGED <<instance, args, result, views, fetches, script, unit, patient, formData, requests, closed, edits>>

----------------------------------------------------------------------------
(* ConsultationForm *)

DivOpen == "<div xmlns=\"http://www.w3.org/1999/xhtml\">"

DivClose == "</div>"

\* `<div xmlns="http://www.w3.org/1999/xhtml">${text}</div>`
XhtmlDiv(text) == <<DivOpen>> \o text \o <<DivClose>>

SectionTitle ==
    [chiefComplaint |-> "Chief Complaint",
     historyOfPresentIllness |-> "History of Present Illness",
     physicalExamination |-> "Physical Examination",
     assessment |-> "Assessment",
     plan |-> "Plan",
     notes |-> "Additional Notes"]

SectionCode ==
    [chiefComplaint |-> "10154-3",
     historyOfPresentIllness |-> "10164-2",
     physicalExamination |-> "29545-1",
     assessment |-> "51848-0",
     plan |-> "18776-5",
     notes |-> "11506-3"]

SectionDisplay ==
    [chiefComplaint |-> "Chief complaint",
     historyOfPresentIllness |-> "History of present illness",
     physicalExamination |-> "Physical examination",
     assessment |-> "Assessment",
     plan |-> "Plan",
     notes |-> "Progress note"]

\* a JavaScript string is truthy unless it is empty
Truthy(s) == s # << >>

\* one `if (formData.f) { sections.push({...}) }` of createComposition
SectionOf(fd, f) ==
    IF Truthy(fd[f])
    THEN << [title |-> SectionTitle[f],
             code |-> [coding |-> << [system |-> "http://loinc.org",
                                      code |-> SectionCode[f],
                                      display |-> SectionDisplay[f]] >>],
             text |-> [status |-> "generated", div |-> XhtmlDiv(fd[f])]] >>
    ELSE << >>

createComposition(p, fd) ==
    [resourceType |-> "Composition",
     status |-> "final",
     type |-> [coding |-> << [system |-> "http://loinc.org", code |-> "11506-3",
                              display |-> "Progress note"] >>,
               text |-> "Cardiology Consultation Report"],
     category |-> << [coding |-> << [system |-> "http://snomed.info/sct",
                                     code |-> "308335008",
                                     display |-> "Patient consultation"] >>,
                      text |-> "Consultation"] >>,
     subject |-> [reference |-> PatientReference(p.id), display |-> SubjectDisplay(p)],
     date |-> fd.date,
     author |-> << [reference |-> OrganizationReference,
                    display |-> "Demo General Hospital - Cardiology Department"] >>,
     title |-> "Cardiology Consultation Report",
     section |-> SectionOf(fd, "chiefComplaint")
                    \o SectionOf(fd, "historyOfPresentIllness")
                    \o SectionOf(fd, "physicalExamination")
                    \o SectionOf(fd, "assessment")
                    \o SectionOf(fd, "plan")
                    \o SectionOf(fd, "notes")]

\* The part of ConsultationForm.handleSubmit that runs before the request
\* is sent: the composition to submit, or the Error thrown.
ConsultBuild(p, fd) ==
    LET composition == createComposition(p, fd)
    IN  IF ~Truthy(fd.chiefComplaint) /\ ~Truthy(fd.assessment) /\ ~Truthy(fd.plan)
        THEN [thrown |-> TRUE,
              message |-> <<"Please provide at least Chief Complaint, Assessment, or Plan">>,
              compositions |-> << >>]
        ELSE IF Len(composition.section) = 0
        THEN [thrown |-> TRUE,
              message |-> <<"Please provide at least one section of the consultation report">>,
              compositions |-> << >>]
        ELSE [thrown |-> FALSE, message |-> << >>, compositions |-> <<composition>>]

InitConsultationForm ==
    /\ unit = "ConsultationForm"
    /\ patient \in Patients
    /\ formData = InitialFormData("ConsultationForm")
    /\ loading = FALSE
    /\ error = NoError
    /\ success = FALSE
    /\ pc = "idle"
    /\ requests = << >>
    /\ idx = 0
    /\ errors = << >>
    /\ timer = {}
    /\ instance = 1
    /\ closed = FALSE
    /\ edits = 0
    /\ script = NoLocals
    /\ views = NoViews
    /\ fetches = 0
    /\ args = NoArgs
    /\ result = NoResult

\* handleChange of an input of the consultation form
ConsultHandleChange ==
    /\ unit = "ConsultationForm"
    /\ ~closed
    /\ edits < MaxEdits
    /\ \/ \E i \in DOMAIN SectionFields, value \in ConsultInputs :
              formData' = [formData EXCEPT ![SectionFields[i]] = value]
       \/ \E value \in Dates :
              formData' = [formData EXCEPT !.date = value]
    /\ error' = NoError
    /\ edits' = edits + 1
    /\ pc' = IF pc = "settled" THEN "idle" ELSE pc
    /\ UNCHANGED <<instance, args, result, views, fetches, script, unit, patient, loading, success, requests, idx, errors, timer, closed>>

\* handleSubmit up to `await fetch(...)`, or to its end when it throws
ConsultHandleSubmit ==
    /\ unit = "ConsultationForm"
    /\ ~closed
    /\ ~SubmitDisabled
    /\ LET built == ConsultBuild(patient, formData)
       IN  IF built.thrown
           THEN /\ requests' = << >>
                /\ Throw(built.message)
           ELSE /\ requests' = <<PostRequest("Composition", built.compositions[1])>>
                /\ pc' = "awaiting"
                /\ loading' = TRUE
                /\ error' = NoError
                /\ idx' = 0
                /\ errors' = << >>
                /\ UNCHANGED <<success, timer>>
    /\ UNCHANGED <<instance, args, result, views, fetches, script, unit, patient, formData, closed, edits>>

\* the POST settles and handleSubmit resumes
ConsultFetchSettles ==
    /\ unit = "ConsultationForm"
    /\ pc = "awaiting"
    /\ \E o \in Outcomes :
          /\ requests' = [requests EXCEPT ![1].outcome = o]
          /\ IF o.state = "rejected"
             THEN Throw(FetchFailedMessage)
             ELSE IF o.ok
             THEN Succeed
             ELSE /\ pc' = "reading"
                  /\ idx' = 1
                  /\ UNCHANGED <<loading, error, success, errors, timer>>
    /\ UNCHANGED <<instance, args, result, views, fetches, script, unit, patient, formData, closed, edits>>

\* `await response.json().catch(() => ({}))` completes and the Error is thrown
ConsultBodyRead ==
    /\ unit = "ConsultationForm"
    /\ pc = "reading"
    /\ LET r == requests[idx]
       IN  IF r.outcome.body.kind = "null"
           THEN Throw(NullBodyMessage)
           ELSE Throw(<<"Failed to create consultation report: ",
                        ToString(r.outcome.status), " ">>
                          \o Diagnostics(r.outcome.body))
    /\ UNCHANGED <<instance, args, result, views, fetches, script, unit, patient, formData, requests, closed, edits>>

----------------------------------------------------------------------------
(* insert-john-doe-history.js: the seed script *)

\* fetch(url) and fetch(url, {method: 'DELETE'}) carry no resource
NoResource == [resourceType |-> "none"]

GetRequest(url) == [method |-> "GET", url |-> url, body |-> NoResource, outcome |-> Pending]

\* the request of deleteResource(resourceType, resourceId, cascade)
DeleteRequest(resourceType, resourceId, cascade) ==
    [method |-> "DELETE",
     url |-> <<FHIR_BASE_URL, "/", resourceType, "/", resourceId>>
                \o (IF cascade THEN <<"?_cascade=delete">> ELSE << >>),
     body |-> NoResource,
     outcome |-> Pending]

\* the request of deletePatientResources(resourceType, patientId, ...)
SearchRequest(resourceType, patientId) ==
    GetRequest(<<FHIR_BASE_URL, "/", resourceType, "?subject=Patient/", patientId,
                 "&_count=1000">>)

\* the request of deleteAllPatients
PatientsRequest ==
    GetRequest(<<FHIR_BASE_URL, "/Patient?organization=Organization/", ORGANIZATION_ID,
                 "&_count=1000">>)

\* an order that clears the Conditions before the resources that refer to them
resourceTypesConditionFirst ==
    <<"Condition", "DiagnosticReport", "ServiceRequest", "MedicationRequest", "Procedure",
      "Composition", "Observation">>

\* the order in which deleteAllPatients clears the resources of a patient
resourceTypes ==
    <<"DiagnosticReport", "ServiceRequest", "MedicationRequest", "Procedure",
      "Composition", "Observation", "Condition">>

\* cascade for every type
useCascadeAlways(resourceType) == TRUE

useCascade(resourceType) == resourceType \in {"Condition", "Procedure"}

\* date.setFullYear(date.getFullYear() - years): the year is truncated to
\* an integer, so the date lies ceil(years) calendar years back; years is
\* given in tenths
getDateTimeYearsAgo(tenths) == [yearsBack |-> (tenths + 9) \div 10]

\* yearsAgo in tenths of a year
bpReadings ==
    << [yearsAgo |-> 60, systolic |-> 200, diastolic |-> 110],
       [yearsAgo |-> 55, systolic |-> 195, diastolic |-> 108],
       [yearsAgo |-> 50, systolic |-> 205, diastolic |-> 112],
       [yearsAgo |-> 45, systolic |-> 198, diastolic |-> 109],
       [yearsAgo |-> 40, systolic |-> 200, diastolic |-> 110],
       [yearsAgo |-> 35, systolic |-> 202, diastolic |-> 111],
       [yearsAgo |-> 30, systolic |-> 198, diastolic |-> 108],
       [yearsAgo |-> 25, systolic |-> 200, diastolic |-> 110],
       [yearsAgo |-> 20, systolic |-> 195, diastolic |-> 109],
       [yearsAgo |-> 15, systolic |-> 200, diastolic |-> 110],
       [yearsAgo |-> 10, systolic |-> 198, diastolic |-> 108],
       [yearsAgo |-> 5, systolic |-> 200, diastolic |-> 110] >>

\* the blood pressure Observation of one reading
bpObservation(patientId, reading) ==
    [resourceType |-> "Observation",
     status |-> "final",
     category |-> << [coding |-> << [system |-> "http://terminology.hl7.org/CodeSystem/observation-category",
                                     code |-> "vital-signs",
                                     display |-> "Vital Signs"] >>] >>,
     code |-> [coding |-> << [system |-> "http://loinc.org", code |-> "85354-9",
                              display |-> "Blood pressure panel with all children optional"] >>],
     subject |-> [reference |-> PatientReference(patientId), display |-> "John Doe"],
     effectiveDateTime |-> getDateTimeYearsAgo(reading.yearsAgo),
     component |->
        << [code |-> [coding |-> << [system |-> "http://loinc.org", code |-> "8480-6",
                                     display |-> "Systolic blood pressure"] >>],
            valueQuantity |-> [value |-> Num(reading.systolic * Scale), unit |-> "mmHg",
                               system |-> "http://unitsofmeasure.org", code |-> "mm[Hg]"]],
           [code |-> [coding |-> << [system |-> "http://loinc.org", code |-> "8462-4",
                                     display |-> "Diastolic blood pressure"] >>],
            valueQuantity |-> [value |-> Num(reading.diastolic * Scale), unit |-> "mmHg",
                               system |-> "http://unitsofmeasure.org", code |-> "mm[Hg]"]] >>,
     performer |-> << [reference |-> OrganizationReference,
                       display |-> "Demo General Hospital"] >>]

\* yearsAgo in tenths of a year
consultations ==
    <<
    [yearsAgo |-> 60,
     chiefComplaint |-> "Elevated blood pressure readings, headaches",
     history |-> "Patient presents with persistent hypertension. Blood pressure consistently elevated around 200/110 mmHg. Reports occasional headaches and dizziness.",
     physicalExam |-> "BP: 200/110 mmHg. Heart rate regular. No significant findings on cardiac auscultation.",
     assessment |-> "Uncontrolled hypertension. Risk factors include age and family history.",
     plan |-> "Start antihypertensive medication (ACE inhibitor). Lifestyle modifications including low-sodium diet and regular exercise. Follow-up in 3 months."],
    [yearsAgo |-> 55,
     chiefComplaint |-> "Follow-up for hypertension management",
     history |-> "Patient reports some improvement in symptoms but blood pressure remains elevated. Compliance with medication is good.",
     physicalExam |-> "BP: 195/108 mmHg. Cardiovascular examination unremarkable.",
     assessment |-> "Hypertension still uncontrolled despite medication. Consider medication adjustment.",
     plan |-> "Increase ACE inhibitor dosage. Add diuretic if needed. Continue lifestyle modifications. Recheck in 2 months."],
    [yearsAgo |-> 50,
     chiefComplaint |-> "Chest pain and shortness of breath",
     history |-> "Patient presents with new onset chest pain on exertion and occasional shortness of breath. History of uncontrolled hypertension.",
     physicalExam |-> "BP: 205/112 mmHg. Heart rate 88 bpm. S4 gallop present. No murmurs.",
     assessment |-> "Suspected coronary artery disease. Hypertension uncontrolled. Need cardiac workup.",
     plan |-> "Order ECG, stress test, and cardiac catheterization. Continue antihypertensive medications. Cardiology referral."],
    [yearsAgo |-> 45,
     chiefComplaint |-> "Post-procedure follow-up after LAD stent",
     history |-> "Patient underwent LAD stent insertion 6 months ago. Reports improvement in chest pain. Blood pressure still elevated.",
     physicalExam |-> "BP: 198/109 mmHg. Heart rate regular. No signs of heart failure.",
     assessment |-> "Post-PCI status. CAD stable. Hypertension still uncontrolled.",
     plan |-> "Continue dual antiplatelet therapy. Optimize antihypertensive regimen. Cardiac rehabilitation. Follow-up in 3 months."],
    [yearsAgo |-> 40,
     chiefComplaint |-> "Routine follow-up for CAD and hypertension",
     history |-> "Patient doing well post-stent. No chest pain. Blood pressure readings remain high.",
     physicalExam |-> "BP: 200/110 mmHg. Cardiovascular examination stable.",
     assessment |-> "CAD stable post-PCI. Hypertension uncontrolled despite multiple medications.",
     plan |-> "Continue current medications. Consider adding beta-blocker. Lifestyle counseling. Follow-up in 4 months."],
    [yearsAgo |-> 30,
     chiefComplaint |-> "Annual cardiology follow-up",
     history |-> "Patient stable on current medications. No cardiac symptoms. Blood pressure still elevated.",
     physicalExam |-> "BP: 198/108 mmHg. Heart sounds normal.",
     assessment |-> "CAD stable. Hypertension uncontrolled. Carotid stenosis known, stable.",
     plan |-> "Continue current treatment. Monitor carotid stenosis. Annual carotid ultrasound. Follow-up in 6 months."],
    [yearsAgo |-> 20,
     chiefComplaint |-> "Routine cardiovascular follow-up",
     history |-> "Patient reports feeling well. No new symptoms. Blood pressure readings consistently high.",
     physicalExam |-> "BP: 200/110 mmHg. No changes in cardiovascular examination.",
     assessment |-> "All conditions stable but hypertension remains uncontrolled.",
     plan |-> "Continue medications. Emphasize lifestyle modifications. Consider medication review. Follow-up in 4 months."],
    [yearsAgo |-> 10,
     chiefComplaint |-> "Follow-up visit",
     history |-> "Patient stable. Blood pressure readings remain elevated around 200/110 mmHg. No cardiac symptoms.",
     physicalExam |-> "BP: 198/108 mmHg. Cardiovascular examination unchanged.",
     assessment |-> "CAD and carotid stenosis stable. Hypertension uncontrolled.",
     plan |-> "Continue current treatment regimen. Monitor for complications. Follow-up in 6 months."],
    [yearsAgo |-> 5,
     chiefComplaint |-> "Recent blood pressure check",
     history |-> "Patient presents for routine follow-up. Blood pressure still elevated. No new concerns.",
     physicalExam |-> "BP: 200/110 mmHg. Physical examination unremarkable.",
     assessment |-> "Hypertension uncontrolled. CAD and carotid stenosis stable.",
     plan |-> "Continue medications. Review medication compliance. Consider referral to hypertension specialist. Follow-up in 3 months."]
    >>

\* one entry of the section array of a seeded Composition
seedSection(title, code, display, text) ==
    [title |-> title,
     code |-> [coding |-> << [system |-> "http://loinc.org", code |-> code,
                              display |-> display] >>],
     text |-> [status |-> "generated", div |-> XhtmlDiv(<<text>>)]]

\* the Composition of one consultation
composition(patientId, consult) ==
    [resourceType |-> "Composition",
     status |-> "final",
     type |-> [coding |-> << [system |-> "http://loinc.org", code |-> "11506-3",
                              display |-> "Progress note"] >>,
               text |-> "Cardiology Consultation Report"],
     category |-> << [coding |-> << [system |-> "http://snomed.info/sct",
                                     code |-> "308335008",
                                     display |-> "Patient consultation"] >>,
                      text |-> "Consultation"] >>,
     subject |-> [reference |-> PatientReference(patientId), display |-> "John Doe"],
     date |-> getDateTimeYearsAgo(consult.yearsAgo),
     author |-> << [reference |-> OrganizationReference,
                    display |-> "Demo General Hospital - Cardiology Department"] >>,
     title |-> "Cardiology Consultation Report",
     section |->
        << seedSection("Chief Complaint", "10154-3", "Chief complaint", consult.chiefComplaint),
           seedSection("History of Present Illness", "10164-2", "History of present illness",
                       consult.history),
           seedSection("Physical Examination", "29545-1", "Physical examination",
                       consult.physicalExam),
           seedSection("Assessment", "51848-0", "Assessment", consult.assessment),
           seedSection("Plan", "18776-5", "Plan", consult.plan) >>]

\* the Patient resource of John Doe
seedPatient ==
    [resourceType |-> "Patient",
     name |-> << [given |-> <<"John">>, family |-> "Doe"] >>,
     managingOrganization |-> [reference |-> OrganizationReference,
                               display |-> "Demo General Hospital"]]

\* a resource of the history other than an Observation or a Composition:
\* its type and its subject
seedResource(resourceType, patientId) ==
    [resourceType |-> resourceType,
     subject |-> [reference |-> PatientReference(patientId), display |-> "John Doe"]]

\* a resource built before the Condition it refers to has been created
withReasonBeforeCreation(resourceType, patientId, conditionId) ==
    [resourceType |-> resourceType,
     subject |-> [reference |-> PatientReference(patientId), display |-> "John Doe"],
     reasonReference |-> << [reference |-> <<"Condition/", NoIds.cadConditionId>>] >>]

\* a Procedure, MedicationRequest or ServiceRequest: reasonReference
\* `Condition/${...}`
withReason(resourceType, patientId, conditionId) ==
    [resourceType |-> resourceType,
     subject |-> [reference |-> PatientReference(patientId), display |-> "John Doe"],
     reasonReference |-> << [reference |-> <<"Condition/", conditionId>>] >>]

\* a DiagnosticReport: basedOn `ServiceRequest/${created...Order.id}`
reportBasedOn(patientId, orderId) ==
    [resourceType |-> "DiagnosticReport",
     subject |-> [reference |-> PatientReference(patientId), display |-> "John Doe"],
     basedOn |-> << [reference |-> <<"ServiceRequest/", orderId>>] >>]

\* the resources insertJohnDoeHistory creates after the Patient, in order;
\* ids are the ids it has kept so far
seedResources(patientId, ids) ==
    << seedResource("Condition", patientId), seedResource("Condition", patientId),
       seedResource("Condition", patientId),
       withReason("Procedure", patientId, ids.cadConditionId) >>
    \o [i \in DOMAIN bpReadings |-> bpObservation(patientId, bpReadings[i])]
    \o [i \in DOMAIN consultations |-> composition(patientId, consultations[i])]
    \o << withReason("MedicationRequest", patientId, ids.hypertensionId),
          withReason("MedicationRequest", patientId, ids.hypertensionId),
          withReason("MedicationRequest", patientId, ids.cadConditionId),
          withReason("MedicationRequest", patientId, ids.cadConditionId),
          withReason("MedicationRequest", patientId, ids.cadConditionId) >>
    \o << withReason("ServiceRequest", patientId, ids.cadConditionId),
          withReason("ServiceRequest", patientId, ids.cadConditionId),
          withReason("ServiceRequest", patientId, ids.cadConditionId),
          withReason("ServiceRequest", patientId, ids.carotidStenosisId) >>
    \o << reportBasedOn(patientId, ids.createdEcgOrder),
          reportBasedOn(patientId, ids.createdStressTestOrder),
          reportBasedOn(patientId, ids.createdCathOrder),
          reportBasedOn(patientId, ids.createdCarotidUsOrder) >>

\* the local that takes the id of each created resource, "" where the
\* script keeps none
keptAs ==
    << "carotidStenosisId", "cadConditionId", "hypertensionId", "" >>
    \o [i \in DOMAIN bpReadings |-> ""]
    \o [i \in DOMAIN consultations |-> ""]
    \o << "", "", "", "", "" >>
    \o << "createdEcgOrder", "createdStressTestOrder", "createdCathOrder",
          "createdCarotidUsOrder" >>
    \o << "", "", "", "" >>

\* createdPatient, before there is one
NoPatient == [id |-> "", name |-> << >>]

\* the script at its next await: its position, its locals, the request it
\* has just issued
Creation(k, p, ids) ==
    [pc |-> "creating", script |-> [NoLocals EXCEPT !.created = ids], idx |-> k,
     patient |-> p,
     requests |-> << PostRequest(IF k = 0 THEN "Patient"
                                 ELSE seedResources(p.id, ids)[k].resourceType,
                                 IF k = 0 THEN seedPatient
                                 ELSE seedResources(p.id, ids)[k]) >>]

\* the rest of the loop over resourceTypes for the patient at the head of
\* s.patients, then deleteResource('Patient', patient.id, true)
SearchTypes(s) ==
    IF s.types # << >>
    THEN [pc |-> "searching", script |-> s, idx |-> 0, patient |-> NoPatient,
          requests |-> << SearchRequest(Head(s.types), Head(s.patients)) >>]
    ELSE [pc |-> "deletingPatient", script |-> [s EXCEPT !.cascade = TRUE, !.attempts = 1],
          idx |-> 0, patient |-> NoPatient,
          requests |-> << DeleteRequest("Patient", Head(s.patients), TRUE) >>]

\* the rest of the loop over data.entry in deletePatientResources; an entry
\* without resource.id ("" here) is passed over
RECURSIVE NextEntry(_)
NextEntry(s) ==
    IF s.entries = << >>
    THEN SearchTypes([s EXCEPT !.types = Tail(@)])
    ELSE IF Head(s.entries) = ""
    THEN NextEntry([s EXCEPT !.entries = Tail(@)])
    ELSE [pc |-> "deleting",
          script |-> [s EXCEPT !.cascade = useCascade(Head(s.types)), !.attempts = 1],
          idx |-> 0, patient |-> NoPatient,
          requests |-> << DeleteRequest(Head(s.types), Head(s.entries),
                                        useCascade(Head(s.types))) >>]

\* the rest of the loop over patients in deleteAllPatients, then Step 1
NextPatient(s) ==
    IF s.patients = << >>
    THEN [Creation(0, NoPatient, NoIds) EXCEPT !.script.response = s.response,
                                        !.script.returned = s.returned]
    ELSE SearchTypes([s EXCEPT !.types = resourceTypes, !.entries = << >>])

Goto(k) ==
    /\ pc' = k.pc
    /\ script' = k.script
    /\ idx' = k.idx
    /\ patient' = k.patient
    /\ requests' = k.requests

\* a catch block that deletes the patient of the run before it exits
ExitDeletingPatient(err) ==
    /\ pc' = "exited"
    /\ script' = [NoLocals EXCEPT !.thrown = err]
    /\ idx' = 0
    /\ requests' = IF patient.id # "" THEN <<DeleteRequest("Patient", patient.id, TRUE)>>
                   ELSE << >>
    /\ UNCHANGED patient

\* catch (error) { console.error(..., error); process.exit(1) }
Exit(err) ==
    /\ pc' = "exited"
    /\ script' = [NoLocals EXCEPT !.thrown = err]
    /\ idx' = 0
    /\ requests' = << >>
    /\ UNCHANGED patient

\* patients the organization may have on the server before the run
ExistingPatients == [i \in 1..(MaxPatients + 1) |-> ToString(900 + i)]

\* resources a patient may have of one type, the first with or without an id
ExistingEntries == [i \in 1..(MaxEntries + 1) |-> ToString(500 + i)]

\* the entry arrays (as resource ids) a search of the patients may return
PatientBundles == { SubSeq(ExistingPatients, 1, n) : n \in 0..MaxPatients }

\* the entry arrays (as resource ids, "" for an entry without one) a search
\* of a patient's resources may return
ResourceBundles ==
    { SubSeq(ExistingEntries, 1, n) : n \in 0..MaxEntries }
    \cup { <<"">> \o SubSeq(ExistingEntries, 2, n) : n \in 1..MaxEntries }

\* how a GET settles: the fetch rejects, the response is not ok, its body
\* does not parse, or it is a Bundle
SearchResponses(bundles) ==
    { [kind |-> k, entry |-> << >>] : k \in {"rejected", "not ok", "unparseable"} }
    \cup { [kind |-> "bundle", entry |-> b] : b \in bundles }

\* how a DELETE settles: the fetch rejects, or the response is ok, 404, or
\* another status
DeleteResponses == {"rejected", "ok", "404", "failed"}

\* how a POST of createResource settles: the fetch rejects, the response is
\* not ok, or the created resource comes back under a new id
ServerIds == {"201", "202"}

CreateResponses ==
    { [kind |-> k, id |-> ""] : k \in {"rejected", "not ok"} }
    \cup { [kind |-> "created", id |-> id] : id \in ServerIds }

InitScript ==
    /\ unit = "script"
    /\ patient = NoPatient
    /\ formData = << >>
    /\ loading = FALSE
    /\ error = NoError
    /\ success = FALSE
    /\ pc = "start"
    /\ requests = << >>
    /\ idx = 0
    /\ errors = << >>
    /\ timer = {}
    /\ instance = 1
    /\ closed = FALSE
    /\ edits = 0
    /\ script = NoLocals
    /\ views = NoViews
    /\ fetches = 0
    /\ args = NoArgs
    /\ result = NoResult

ScriptUnchanged == UNCHANGED <<instance, args, result, views, fetches, unit, formData, loading, error, success, errors, timer, closed, edits>>

\* insertJohnDoeHistory up to the fetch of deleteAllPatients
ScriptStart ==
    /\ unit = "script"
    /\ pc = "start"
    /\ pc' = "fetchingPatients"
    /\ requests' = <<PatientsRequest>>
    /\ UNCHANGED <<patient, idx, script>>
    /\ ScriptUnchanged

\* deleteAllPatients from the response of its fetch on
ScriptPatientsFetched ==
    /\ unit = "script"
    /\ pc = "fetchingPatients"
    /\ \E r \in SearchResponses(PatientBundles) :
          IF r.kind \in {"rejected", "unparseable"}
          THEN Exit(r.kind)
          ELSE IF r.kind = "not ok" \/ r.entry = << >>
          THEN Goto(Creation(0, NoPatient, NoIds))
          ELSE Goto(NextPatient([NoLocals EXCEPT !.patients = r.entry]))
    /\ ScriptUnchanged

\* deletePatientResources from the response of its fetch on
ScriptResourcesFetched ==
    /\ unit = "script"
    /\ pc = "searching"
    /\ \E r \in SearchResponses(ResourceBundles) :
          Goto(NextEntry([script EXCEPT !.entries = r.entry]))
    /\ ScriptUnchanged

\* a deleteResource that throws when the DELETE has failed for good
ScriptDeletedRethrowing ==
    /\ unit = "script"
    /\ pc \in {"deleting", "deletingPatient"}
    /\ \E r \in DeleteResponses :
          IF r = "failed" /\ script.cascade
          THEN /\ requests' = << DeleteRequest(IF pc = "deleting" THEN Head(script.types)
                                                                    ELSE "Patient",
                                               IF pc = "deleting" THEN Head(script.entries)
                                                                    ELSE Head(script.patients),
                                               FALSE) >>
               /\ script' = [script EXCEPT !.cascade = FALSE, !.attempts = @ + 1,
                                            !.response = r]
               /\ UNCHANGED <<pc, idx, patient>>
          ELSE IF r \in {"failed", "rejected"}
          THEN Exit(r)
          ELSE IF pc = "deleting"
          THEN Goto(NextEntry([script EXCEPT !.entries = Tail(@), !.response = r,
                                             !.returned = <<TRUE>>]))
          ELSE Goto(NextPatient([script EXCEPT !.patients = Tail(@), !.response = r,
                                               !.returned = <<TRUE>>]))
    /\ ScriptUnchanged

\* deleteResource from the response of its fetch on: once more without
\* cascade after a failed cascade delete, else on with the loop it is in
ScriptDeleted ==
    /\ unit = "script"
    /\ pc \in {"deleting", "deletingPatient"}
    /\ \E r \in DeleteResponses :
          IF r = "failed" /\ script.cascade
          THEN /\ requests' = << DeleteRequest(IF pc = "deleting" THEN Head(script.types)
                                                                    ELSE "Patient",
                                               IF pc = "deleting" THEN Head(script.entries)
                                                                    ELSE Head(script.patients),
                                               FALSE) >>
               /\ script' = [script EXCEPT !.cascade = FALSE, !.attempts = @ + 1,
                                            !.response = r]
               /\ UNCHANGED <<pc, idx, patient>>
          ELSE IF pc = "deleting"
          THEN Goto(NextEntry([script EXCEPT !.entries = Tail(@), !.response = r,
                                             !.returned = <<r \in {"ok", "404"}>>]))
          ELSE Goto(NextPatient([script EXCEPT !.patients = Tail(@), !.response = r,
                                               !.returned = <<r \in {"ok", "404"}>>]))
    /\ ScriptUnchanged

\* createResource from the response of its fetch on, and insertJohnDoeHistory
\* up to its next createResource
ScriptCreated ==
    /\ unit = "script"
    /\ pc = "creating"
    /\ \E r \in CreateResponses :
          IF r.kind # "created"
          THEN Exit(r.kind)
          ELSE LET p == IF idx = 0 THEN [id |-> r.id, name |-> seedPatient.name] ELSE patient
                   ids == IF idx > 0 /\ keptAs[idx] # ""
                          THEN [script.created EXCEPT ![keptAs[idx]] = r.id]
                          ELSE script.created
               IN  IF idx = Len(seedResources(p.id, ids))
                   THEN /\ pc' = "done"
                        /\ requests' = << >>
                        /\ patient' = p
                        /\ script' = [script EXCEPT !.created = ids]
                        /\ UNCHANGED idx
                   ELSE Goto(Creation(idx + 1, p, ids))
    /\ ScriptUnchanged

----------------------------------------------------------------------------
(* Formatters *)

Has(r, f) == f \in DOMAIN r

\* x.coding?.[0]?.display || x.text || fallback, of a CodeableConcept
ConceptDisplay(c, fallback) ==
    IF Has(c, "coding") /\ c.coding # << >> /\ Has(c.coding[1], "display")
        /\ c.coding[1].display # ""
    THEN c.coding[1].display
    ELSE IF Has(c, "text") /\ c.text # "" THEN c.text
    ELSE fallback

\* `${q.value} ${q.unit || ''}`
QuantityString(q) ==
    NumberToString(q.value) \o <<" ">>
        \o (IF Has(q, "unit") /\ q.unit # "" THEN <<q.unit>> ELSE << >>)

\* the value of an Observation or of one of its components, 'N/A' when none
ValueString(o) ==
    IF Has(o, "valueQuantity") THEN QuantityString(o.valueQuantity)
    ELSE IF Has(o, "valueString") /\ o.valueString # "" THEN <<o.valueString>>
    ELSE IF Has(o, "valueCodeableConcept")
    THEN <<ConceptDisplay(o.valueCodeableConcept, "N/A")>>
    ELSE <<"N/A">>

UpperCaseLetters == "ABCDEFGHIJKLMNOPQRSTUVWXYZ"
LowerCaseLetters == "abcdefghijklmnopqrstuvwxyz"

\* String.prototype.toLowerCase of one character
LowerChar(c) ==
    IF \E k \in 1..Len(UpperCaseLetters) : SubSeq(UpperCaseLetters, k, k) = c
    THEN LET k == CHOOSE k \in 1..Len(UpperCaseLetters) : SubSeq(UpperCaseLetters, k, k) = c
         IN  SubSeq(LowerCaseLetters, k, k)
    ELSE c

\* String.prototype.toLowerCase
RECURSIVE toLowerCase(_)
toLowerCase(s) ==
    IF Len(s) = 0 THEN ""
    ELSE LowerChar(SubSeq(s, 1, 1)) \o toLowerCase(SubSeq(s, 2, Len(s)))

\* String.prototype.includes
includes(s, searchString) ==
    \E i \in 1..(Len(s) - Len(searchString) + 1) :
        SubSeq(s, i, i + Len(searchString) - 1) = searchString

\* a test of the code text that minds the case
MentionsBloodPressureInThisCase(code) == includes(code, "blood pressure")

\* code.toLowerCase().includes('blood pressure')
MentionsBloodPressure(code) == includes(toLowerCase(code), "blood pressure")

getObservationDisplay(obs) ==
    LET code == IF Has(obs, "code") THEN ConceptDisplay(obs.code, "Unknown") ELSE "Unknown"
        hasComponents == Has(obs, "component") /\ Len(obs.component) > 0
        components ==
            IF hasComponents
            THEN [i \in DOMAIN obs.component |->
                    [code |-> IF Has(obs.component[i], "code")
                              THEN ConceptDisplay(obs.component[i].code, "Unknown")
                              ELSE "Unknown",
                     value |-> ValueString(obs.component[i])]]
            ELSE << >>
        value ==
            IF hasComponents
            THEN IF Len(components) = 2 /\ MentionsBloodPressure(code)
                 THEN components[1].value \o <<"/">> \o components[2].value
                 ELSE Join([i \in DOMAIN components |->
                              <<components[i].code, ": ">> \o components[i].value],
                           <<", ">>)
            ELSE ValueString(obs)
    IN  [code |-> code, value |-> value, components |-> components]

\* an opening div tag, as /<div[^>]*>/ matches it
IsDivOpen(tok) == tok \in {DivOpen, "<div>"}

\* divString.match(/<div[^>]*>(.*?)<\/div>/s): the text between the first
\* opening div tag and the first closing tag after it, trimmed; the string
\* itself when there is no match; '' for an absent string
extractTextFromDiv(divString) ==
    IF divString = << >> THEN << >>
    ELSE LET opens == {i \in DOMAIN divString :
                          /\ IsDivOpen(divString[i])
                          /\ \E j \in (i + 1)..Len(divString) : divString[j] = DivClose}
         IN  IF opens = {} THEN divString
             ELSE LET i == CHOOSE k \in opens : \A m \in opens : k <= m
                      j == CHOOSE k \in (i + 1)..Len(divString) :
                              /\ divString[k] = DivClose
                              /\ \A m \in (i + 1)..(k - 1) : divString[m] # DivClose
                  IN  Trim(SubSeq(divString, i + 1, j - 1))

----------------------------------------------------------------------------
(* The list views: PatientList and the six sections of a patient card *)

\* the resource type a view asks for and the parameters after its subject
ViewQuery ==
    [PatientList |-> [type |-> "Patient", params |-> "&_count=100"],
     PatientConditions |-> [type |-> "Condition", params |-> "&_sort=-onset-date&_count=50"],
     PatientProcedures |-> [type |-> "Procedure", params |-> "&_sort=-date&_count=50"],
     PatientMedications |-> [type |-> "MedicationRequest",
                             params |-> "&_sort=-authoredon&_count=50"],
     PatientDiagnosticReports |-> [type |-> "DiagnosticReport",
                                   params |-> "&_sort=-date&_count=50"],
     PatientObservations |-> [type |-> "Observation", params |-> "&_sort=-date&_count=50"],
     PatientConsultations |-> [type |-> "Composition", params |-> "&_sort=-date&_count=50"]]

\* the url a view fetches; patientId is the prop of a section
ViewUrl(v, patientId) ==
    IF v = "PatientList"
    THEN <<FHIR_BASE_URL, "/Patient?organization=Organization/", ORGANIZATION_ID,
           ViewQuery[v].params>>
    ELSE <<FHIR_BASE_URL, "/", ViewQuery[v].type, "?subject=Patient/", patientId,
           ViewQuery[v].params>>

\* resources the server may hold for a view, newest first
ServerResources(v) ==
    << [resourceType |-> ViewQuery[v].type, id |-> "2"],
       [resourceType |-> ViewQuery[v].type, id |-> "1"] >>

\* the Bundles a search may return: without entry, with an empty entry, and
\* with one or two resources
Bundles(v) ==
    { [resourceType |-> "Bundle"],
      [resourceType |-> "Bundle", entry |-> << >>],
      [resourceType |-> "Bundle", entry |-> << [resource |-> ServerResources(v)[1]] >>],
      [resourceType |-> "Bundle",
       entry |-> [i \in DOMAIN ServerResources(v) |-> [resource |-> ServerResources(v)[i]]]] }

NoData == [resourceType |-> "none"]

\* how the GET of a view settles: the fetch rejects, the response is not
\* ok, its body does not parse, or it is a Bundle
ViewResponses(v) ==
    { [kind |-> "rejected", status |-> 0, data |-> NoData],
      [kind |-> "not ok", status |-> 500, data |-> NoData],
      [kind |-> "unparseable", status |-> 200, data |-> NoData] }
    \cup { [kind |-> "bundle", status |-> 200, data |-> d] : d \in Bundles(v) }

\* err.message in the catch block of a fetch function
ViewErrorMessage(r) ==
    IF r.kind = "rejected" THEN FetchFailedMessage
    ELSE IF r.kind = "not ok" THEN <<"HTTP error! status: ", ToString(r.status)>>
    ELSE <<"Unexpected token '<', \"<html>\" is not valid JSON">>

\* data.entry.map(entry => entry.resource) when data.entry && data.entry.length > 0,
\* else []
ViewResources(data) ==
    IF Has(data, "entry") /\ Len(data.entry) > 0
    THEN [i \in DOMAIN data.entry |-> data.entry[i].resource]
    ELSE << >>

\* a GET of a view; n tells it from the other GETs of the view
ViewRequest(v, patientId, n) ==
    [method |-> "GET", url |-> ViewUrl(v, patientId), body |-> NoResource,
     outcome |-> Pending, issued |-> n]

\* a fetch function up to its await: setLoading(true); setError(null); fetch(url)
ViewFetch(v, vs, patientId) ==
    LET issued == {vs.requests[i].issued : i \in DOMAIN vs.requests}
        n == IF issued = {} THEN 1 ELSE 1 + CHOOSE m \in issued : \A k \in issued : k <= m
    IN  [vs EXCEPT !.loading = TRUE, !.error = NoError,
                   !.requests = Append(@, ViewRequest(v, patientId, n))]

\* a fetch function that calls itself once more from its catch block
ViewSettleWithRetry(vs, r) ==
    LET done == vs.requests[CHOOSE i \in DOMAIN vs.requests :
                                vs.requests[i].outcome.state # "pending"]
    IN  IF r.kind = "bundle"
        THEN [vs EXCEPT !.list = ViewResources(r.data), !.loading = FALSE]
        ELSE IF done.issued <= MaxFetches
        THEN [vs EXCEPT !.error = NoError, !.loading = TRUE,
                        !.requests = Append(@, [done EXCEPT !.outcome = Pending,
                                                            !.issued = @ + MaxFetches])]
        ELSE [vs EXCEPT !.error = ViewErrorMessage(r), !.loading = FALSE]

\* a fetch function that adds the resources of a response to its list
ViewSettleAppending(vs, r) ==
    IF r.kind = "bundle"
    THEN [vs EXCEPT !.list = @ \o ViewResources(r.data), !.loading = FALSE]
    ELSE [vs EXCEPT !.error = ViewErrorMessage(r), !.loading = FALSE]

\* a fetch function whose catch block also empties the list
ViewSettleClearingList(vs, r) ==
    IF r.kind = "bundle"
    THEN [vs EXCEPT !.list = ViewResources(r.data), !.loading = FALSE]
    ELSE [vs EXCEPT !.list = << >>, !.error = ViewErrorMessage(r), !.loading = FALSE]

\* a fetch function without its finally block: a failure leaves loading set
ViewSettleWithoutFinally(vs, r) ==
    IF r.kind = "bundle"
    THEN [vs EXCEPT !.list = ViewResources(r.data), !.loading = FALSE]
    ELSE [vs EXCEPT !.error = ViewErrorMessage(r)]

\* a fetch function from its await on, for the response r: the try block's
\* setter, or the catch block; then finally { setLoading(false) }
ViewSettle(vs, r) ==
    IF r.kind = "bundle"
    THEN [vs EXCEPT !.list = ViewResources(r.data), !.loading = FALSE]
    ELSE [vs EXCEPT !.error = ViewErrorMessage(r), !.loading = FALSE]

\* the requests of a view once request i has got response r: the requests
\* still outstanding, and request i with its outcome
Settled(reqs, i, r) ==
    LET before == SelectSeq(SubSeq(reqs, 1, i - 1), LAMBDA q : q.outcome.state = "pending")
        after == SelectSeq(SubSeq(reqs, i + 1, Len(reqs)),
                           LAMBDA q : q.outcome.state = "pending")
        done == [reqs[i] EXCEPT !.outcome =
                    [state |-> IF r.kind = "rejected" THEN "rejected" ELSE "resolved",
                     ok |-> r.status = 200, status |-> r.status, body |-> r]]
    IN  before \o <<done>> \o after

\* PatientList renders the patient cards, and with them the sections
CardsShown(vw) ==
    /\ ~vw["PatientList"].loading
    /\ vw["PatientList"].error = NoError
    /\ vw["PatientList"].list # << >>

\* the patientId prop of the sections of the first card
CardPatientId(vw) == vw["PatientList"].list[1].id

\* the views after view v has taken the state vs: while PatientList renders
\* no cards the sections are unmounted, and a remounted section starts anew
Render(vw, v, vs) ==
    LET next == [vw EXCEPT ![v] = vs]
    IN  IF CardsShown(next) THEN next
        ELSE [w \in Views |-> IF w = "PatientList" THEN next[w] ELSE InitialView(w)]

FormsUnchanged ==
    UNCHANGED <<instance, args, result, unit, patient, formData, loading, error, success, pc, requests, idx,
                errors, timer, closed, edits, script>>

InitViews ==
    /\ unit = "PatientList"
    /\ patient = NoPatient
    /\ formData = << >>
    /\ loading = FALSE
    /\ error = NoError
    /\ success = FALSE
    /\ pc = "idle"
    /\ requests = << >>
    /\ idx = 0
    /\ errors = << >>
    /\ timer = {}
    /\ instance = 1
    /\ closed = FALSE
    /\ edits = 0
    /\ script = NoLocals
    /\ views = NoViews
    /\ fetches = 0
    /\ args = NoArgs
    /\ result = NoResult

\* useEffect(() => { fetchPatients() }, []) of PatientList
ViewMount ==
    /\ fetches = 0
    /\ views' = Render(views, "PatientList",
                       ViewFetch("PatientList", views["PatientList"], ""))
    /\ fetches' = 1
    /\ FormsUnchanged

\* the Retry button (shown with an error) or the Refresh button (shown
\* with the list) of PatientList
ViewRefresh ==
    /\ fetches > 0
    /\ fetches < MaxFetches
    /\ ~views["PatientList"].loading
    /\ views' = Render(views, "PatientList",
                       ViewFetch("PatientList", views["PatientList"], ""))
    /\ fetches' = fetches + 1
    /\ FormsUnchanged

\* the View button of a section: setExpanded(true), and the effect on
\* [expanded, patientId] calls the fetch function
ViewExpand ==
    /\ fetches < MaxFetches
    /\ CardsShown(views)
    /\ \E v \in SubViews :
          /\ ~views[v].expanded
          /\ views' = [views EXCEPT ![v] =
                          ViewFetch(v, [views[v] EXCEPT !.expanded = TRUE],
                                    CardPatientId(views))]
    /\ fetches' = fetches + 1
    /\ FormsUnchanged

\* the Hide button of a section: setExpanded(false)
ViewHide ==
    /\ CardsShown(views)
    /\ \E v \in SubViews :
          /\ views[v].expanded
          /\ views' = [views EXCEPT ![v].expanded = FALSE]
    /\ UNCHANGED fetches
    /\ FormsUnchanged

\* the Retry button of a section, shown when it is expanded, not loading
\* and has an error
ViewRetry ==
    /\ fetches < MaxFetches
    /\ CardsShown(views)
    /\ \E v \in SubViews :
          /\ views[v].expanded
          /\ ~views[v].loading
          /\ views[v].error # NoError
          /\ views' = [views EXCEPT ![v] = ViewFetch(v, views[v], CardPatientId(views))]
    /\ fetches' = fetches + 1
    /\ FormsUnchanged

\* the GET of a view settles and its fetch function runs to its end
ViewResponse ==
    /\ \E v \in Views :
          \E i \in DOMAIN views[v].requests, r \in ViewResponses(v) :
              /\ views[v].requests[i].outcome.state = "pending"
              /\ views' = Render(views, v,
                                 ViewSettle([views[v] EXCEPT !.requests = Settled(@, i, r)], r))
    /\ UNCHANGED fetches
    /\ FormsUnchanged

----------------------------------------------------------------------------
(* The display functions of the sections, called on a resource *)

\* the codes an Observation or a component may carry
ObservationCodes ==
    { << >>,
      [code |-> [coding |-> << [display |-> "Blood pressure panel with all children optional"] >>]],
      [code |-> [text |-> "BLOOD PRESSURE"]],
      [code |-> [coding |-> << [display |-> "Heart rate"] >>, text |-> "blood pressure"]],
      [code |-> [text |-> "Body weight"]] }

\* the values an Observation or a component may carry: a Quantity with or
\* without unit, a string (empty or not), a CodeableConcept with a display,
\* with a text only, or with neither
QuantityValues ==
    { << >>,
      [valueQuantity |-> [value |-> Num(120 * Scale), unit |-> "mmHg"]],
      [valueQuantity |-> [value |-> Num(0)]] }

StringValues == { << >>, [valueString |-> ""], [valueString |-> "positive"] }

ConceptValues ==
    { << >>,
      [valueCodeableConcept |-> [coding |-> << [display |-> "Normal"] >>, text |-> "normal"]],
      [valueCodeableConcept |-> [text |-> "Abnormal"]],
      [valueCodeableConcept |-> [coding |-> << [code |-> "N"] >>]] }

\* the component arrays an Observation may carry
Systolic ==
    [code |-> [coding |-> << [display |-> "Systolic blood pressure"] >>],
     valueQuantity |-> [value |-> Num(120 * Scale), unit |-> "mmHg"]]

Diastolic ==
    [code |-> [coding |-> << [display |-> "Diastolic blood pressure"] >>],
     valueQuantity |-> [value |-> Num(80 * Scale), unit |-> "mmHg"]]

Position == [valueString |-> "sitting"]

Rhythm == [code |-> [text |-> "Rhythm"], valueCodeableConcept |-> [text |-> "Regular"]]

ComponentArrays ==
    { << >>,
      [component |-> << >>],
      [component |-> <<Systolic>>],
      [component |-> <<Systolic, Diastolic>>],
      [component |-> <<Position, Rhythm>>],
      [component |-> <<Systolic, Diastolic, Position>>] }

\* the Observations getObservationDisplay is called on
Observations ==
    { [resourceType |-> "Observation"] @@ c @@ k @@ q @@ s @@ v :
        c \in ObservationCodes, k \in ComponentArrays, q \in QuantityValues,
        s \in StringValues, v \in ConceptValues }

\* category arrays an Observation of the server may carry
Categories ==
    { << >>,
      [category |-> << >>],
      [category |-> <<[text |-> "Laboratory"]>>],
      [category |-> <<[coding |-> << >>]>>],
      [category |-> <<[coding |-> <<[system |-> "observation-category"]>>]>>],
      [category |-> <<[coding |-> <<[code |-> "laboratory"]>>]>>],
      [category |-> <<[coding |-> <<[code |-> "vital-signs"]>>]>>],
      [category |-> <<[coding |-> <<[code |-> "survey"]>>]>>],
      [category |-> <<[coding |-> <<[code |-> "Laboratory"]>>]>>],
      [category |-> <<[coding |-> <<[code |-> "survey"], [code |-> "laboratory"]>>]>>],
      [category |-> <<[coding |-> <<[code |-> "vital-signs"]>>],
                      [coding |-> <<[code |-> "laboratory"]>>]>>] }

\* the observations state of PatientObservations: the resources of the Bundle in
\* the order of its entries, each with its own id
ObservationLists ==
    UNION { { [i \in 1..n |-> [resourceType |-> "Observation", id |-> i] @@ c[i]] :
                c \in [1..n -> Categories] } : n \in 0..MaxObservations }

\* obs.category?.[0]?.coding?.[0]?.code
category(obs) ==
    IF /\ Has(obs, "category")
       /\ Len(obs.category) >= 1
       /\ Has(obs.category[1], "coding")
       /\ Len(obs.category[1].coding) >= 1
       /\ Has(obs.category[1].coding[1], "code")
    THEN obs.category[1].coding[1].code
    ELSE "undefined"

\* a test that looks at every coding of every category
isLabObservationInAnyCategory(obs) ==
    /\ Has(obs, "category")
    /\ \E i \in 1..Len(obs.category) :
          /\ Has(obs.category[i], "coding")
          /\ \E j \in 1..Len(obs.category[i].coding) :
                /\ Has(obs.category[i].coding[j], "code")
                /\ obs.category[i].coding[j].code = "laboratory"

isLabObservation(obs) == category(obs) = "laboratory"

isVitalSign(obs) == category(obs) = "vital-signs"

isOther(obs) == ~isLabObservation(obs) /\ ~isVitalSign(obs)

\* the three filtered lists the component renders
groupObservations(observations) ==
    [ labObservations   |-> SelectSeq(observations, isLabObservation),
      vitalSigns        |-> SelectSeq(observations, isVitalSign),
      otherObservations |-> SelectSeq(observations, isOther) ]

\* the characters of a string, one by one
Chars(s) == [i \in 1..Len(s) |-> SubSeq(s, i, i)]

AllDigits(s) == \A i \in 1..Len(s) : IsDigit(SubSeq(s, i, i))

\* the number written by the decimal digits of s
NumberOf(s) == DigitsValue(Chars(s))

\* Number::toString of a natural number
RECURSIVE NatString(_)
NatString(n) ==
    IF n < 10 THEN DigitChars[n + 1]
    ELSE NatString(n \div 10) \o DigitChars[(n % 10) + 1]

IsLeapYear(y) == (y % 4 = 0 /\ y % 100 # 0) \/ y % 400 = 0

DaysInMonth(y, m) ==
    IF m = 2 THEN (IF IsLeapYear(y) THEN 29 ELSE 28)
    ELSE IF m \in {4, 6, 9, 11} THEN 30 ELSE 31

\* MakeDay: the day number of a calendar date, counted from 1970-01-01
MakeDay(y, m, d) ==
    LET yy  == IF m <= 2 THEN y - 1 ELSE y
        era == yy \div 400
        yoe == yy - era * 400
        mp  == IF m > 2 THEN m - 3 ELSE m + 9
        doy == (153 * mp + 2) \div 5 + d - 1
        doe == yoe * 365 + yoe \div 4 - yoe \div 100 + doy
    IN  era * 146097 + doe - 719468

\* YearFromTime, MonthFromTime, DateFromTime of a day number
CivilFromDay(day) ==
    LET z   == day + 719468
        era == z \div 146097
        doe == z - era * 146097
        yoe == (doe - doe \div 1460 + doe \div 36524 - doe \div 146096) \div 365
        doy == doe - (365 * yoe + yoe \div 4 - yoe \div 100)
        mp  == (5 * doy + 2) \div 153
        d   == doy - (153 * mp + 2) \div 5 + 1
        m   == IF mp < 10 THEN mp + 3 ELSE mp - 9
    IN  [year |-> yoe + era * 400 + (IF m <= 2 THEN 1 ELSE 0), month |-> m, date |-> d]

SecondsPerDay == 86400

InvalidDate == [isNaN |-> TRUE, time |-> 0]

\* new Date(dateString) on the date-time string format: YYYY-MM-DD is read as the
\* start of that day in UTC, YYYY-MM-DDTHH:mm:ssZ as that instant; the time value
\* is in seconds. Any other string the engines agree to reject gives the invalid date.
NewDate(dateString) ==
    LET isDate == /\ Len(dateString) >= 10
                  /\ AllDigits(SubSeq(dateString, 1, 4))
                  /\ SubSeq(dateString, 5, 5) = "-"
                  /\ AllDigits(SubSeq(dateString, 6, 7))
                  /\ SubSeq(dateString, 8, 8) = "-"
                  /\ AllDigits(SubSeq(dateString, 9, 10))
        y      == NumberOf(SubSeq(dateString, 1, 4))
        m      == NumberOf(SubSeq(dateString, 6, 7))
        d      == NumberOf(SubSeq(dateString, 9, 10))
        inCalendar == m \in 1..12 /\ d \in 1..DaysInMonth(y, m)
        isTime == /\ Len(dateString) = 20
                  /\ SubSeq(dateString, 11, 11) = "T"
                  /\ AllDigits(SubSeq(dateString, 12, 13))
                  /\ SubSeq(dateString, 14, 14) = ":"
                  /\ AllDigits(SubSeq(dateString, 15, 16))
                  /\ SubSeq(dateString, 17, 17) = ":"
                  /\ AllDigits(SubSeq(dateString, 18, 19))
                  /\ SubSeq(dateString, 20, 20) = "Z"
        hh     == NumberOf(SubSeq(dateString, 12, 13))
        mm     == NumberOf(SubSeq(dateString, 15, 16))
        ss     == NumberOf(SubSeq(dateString, 18, 19))
    IN  IF isDate /\ inCalendar /\ Len(dateString) = 10
        THEN [isNaN |-> FALSE, time |-> MakeDay(y, m, d) * SecondsPerDay]
        ELSE IF isDate /\ inCalendar /\ isTime /\ hh <= 23 /\ mm <= 59 /\ ss <= 59
        THEN [isNaN |-> FALSE,
              time |-> MakeDay(y, m, d) * SecondsPerDay + hh * 3600 + mm * 60 + ss]
        ELSE InvalidDate

MonthShort ==
    <<"Jan", "Feb", "Mar", "Apr", "May", "Jun", "Jul", "Aug", "Sep", "Oct", "Nov", "Dec">>

TwoDigit(n) == IF n < 10 THEN "0" \o NatString(n) ELSE NatString(n)

\* Date.prototype.toLocaleDateString('en-US', options) in a time zone offsetHours
\* ahead of UTC: 'Invalid Date' for the invalid date (nothing is thrown), else
\* month short, day numeric, year numeric, and with withTime the hour and minute
\* in two digits of the twelve-hour clock
toLocaleDateString(date, withTime, offsetHours) ==
    IF date.isNaN THEN "Invalid Date"
    ELSE LET local  == date.time + offsetHours * 3600
             civil  == CivilFromDay(local \div SecondsPerDay)
             inDay  == local % SecondsPerDay
             hour   == inDay \div 3600
             minute == (inDay % 3600) \div 60
             hour12 == IF hour % 12 = 0 THEN 12 ELSE hour % 12
             day    == MonthShort[civil.month] \o " " \o NatString(civil.date)
                          \o ", " \o NatString(civil.year)
         IN  IF withTime
             THEN day \o ", " \o TwoDigit(hour12) \o ":" \o TwoDigit(minute)
                      \o (IF hour < 12 THEN " AM" ELSE " PM")
             ELSE day

\* the try block of formatDate never throws, so its catch branch is never taken
formatDateOf(a, withTime) ==
    IF ~Has(a, "dateString") \/ a.dateString = "" THEN "N/A"
    ELSE toLocaleDateString(NewDate(a.dateString), withTime, a.offsetHours)

\* formatDate of PatientList (birth date)
formatDate(a) == formatDateOf(a, FALSE)

\* formatDate of PatientDiagnosticReports (effective and issued date with time)
formatDateTime(a) == formatDateOf(a, TRUE)

\* birthDate, effectiveDateTime and issued values a resource may carry
DateStrings ==
    { "", "2024-01-15", "2024-03-01", "1985-12-31T23:30:00Z", "2024-07-04T09:05:00Z",
      "not-a-date", "2024-13-45", "2024-01-15T25:00:00Z" }

\* hours the time zone of the browser is ahead of UTC
TimeZoneOffsets == {0 - 5, 0, 1}

DateArgs ==
    { [fn |-> f, offsetHours |-> z] @@ d :
        f \in {"formatDate", "formatDateTime"}, z \in TimeZoneOffsets,
        d \in { << >> } \cup { [dateString |-> s] : s \in DateStrings } }

\* medicationCodeableConcept values of a MedicationRequest
MedicationConcepts ==
    { << >>,
      [medicationCodeableConcept |-> [coding |-> <<[display |-> "Metformin 500 mg"]>>, text |-> "Metformin"]],
      [medicationCodeableConcept |-> [text |-> "Lisinopril"]] }

\* timing.repeat values of a dosage instruction
Repeats ==
    { << >>,
      [frequency |-> 2, periodUnit |-> "d"],
      [frequency |-> 0],
      [periodUnit |-> "wk"] }

\* dosageInstruction arrays of a MedicationRequest
DosageInstructions ==
    { << >>, [dosageInstruction |-> << >>] }
        \cup { [dosageInstruction |-> <<t @@ r>>] :
                 t \in { << >>, [text |-> ""], [text |-> "Take one tablet with breakfast"] },
                 r \in { << >>, [timing |-> [code |-> "BID"]] }
                          \cup { [timing |-> [repeat |-> x]] : x \in Repeats } }

MedicationRequests ==
    { [resourceType |-> "MedicationRequest"] @@ c @@ s @@ d :
        c \in MedicationConcepts,
        s \in { << >>, [status |-> "active", intent |-> "order"] },
        d \in DosageInstructions }

\* medication.dosageInstruction?.[0]
FirstDosage(medication) ==
    IF Has(medication, "dosageInstruction") /\ medication.dosageInstruction # << >>
    THEN medication.dosageInstruction[1]
    ELSE << >>

\* medication.dosageInstruction?.[0]?.text, '' standing for every falsy value
DosageText(medication) ==
    IF Has(FirstDosage(medication), "text") THEN FirstDosage(medication).text ELSE ""

\* medication.dosageInstruction?.[0]?.timing?.repeat is an object
HasRepeat(medication) ==
    /\ Has(FirstDosage(medication), "timing")
    /\ Has(FirstDosage(medication).timing, "repeat")

\* `${repeat.frequency || 1}x per ${repeat.periodUnit || 'day'}`
FrequencyString(repeat) ==
    NatString(IF Has(repeat, "frequency") /\ repeat.frequency # 0 THEN repeat.frequency ELSE 1)
        \o "x per "
        \o (IF Has(repeat, "periodUnit") /\ repeat.periodUnit # "" THEN repeat.periodUnit ELSE "day")

TypeError == [throws |-> "TypeError"]

\* the dosage with the text taken first and the conditional applied to the repeat only
DosageTextFirst(medication) ==
    IF DosageText(medication) # "" THEN [returns |-> DosageText(medication)]
    ELSE IF HasRepeat(medication)
         THEN [returns |-> FrequencyString(FirstDosage(medication).timing.repeat)]
         ELSE [returns |-> "As directed"]

\* text || repeat ? `...` : 'As directed' groups as (text || repeat) ? `...` : 'As directed';
\* the template reads dosageInstruction[0].timing.repeat.frequency without ?. and
\* throws when the text is there and the repeat is not
Dosage(medication) ==
    IF DosageText(medication) # "" \/ HasRepeat(medication)
    THEN IF HasRepeat(medication)
         THEN [returns |-> FrequencyString(FirstDosage(medication).timing.repeat)]
         ELSE TypeError
    ELSE [returns |-> "As directed"]

getMedicationDisplay(medication) ==
    LET name   == ConceptDisplay(IF Has(medication, "medicationCodeableConcept")
                                 THEN medication.medicationCodeableConcept ELSE << >>,
                                 "Unknown medication")
        status == IF Has(medication, "status") /\ medication.status # ""
                  THEN medication.status ELSE "unknown"
        intent == IF Has(medication, "intent") /\ medication.intent # ""
                  THEN medication.intent ELSE "unknown"
        dosage == Dosage(medication)
    IN  IF Has(dosage, "throws") THEN TypeError
        ELSE [name |-> name, status |-> status, intent |-> intent, dosage |-> dosage.returns]

DisplayArgs ==
    { [fn |-> "getObservationDisplay", obs |-> o] : o \in Observations }
        \cup { [fn |-> "groupObservations", observations |-> l] : l \in ObservationLists }
        \cup DateArgs
        \cup { [fn |-> "getMedicationDisplay", medication |-> m] : m \in MedicationRequests }

InitDisplay ==
    /\ unit = "display"
    /\ patient = NoPatient
    /\ formData = << >>
    /\ loading = FALSE
    /\ error = NoError
    /\ success = FALSE
    /\ pc = "idle"
    /\ requests = << >>
    /\ idx = 0
    /\ errors = << >>
    /\ timer = {}
    /\ instance = 1
    /\ closed = FALSE
    /\ edits = 0
    /\ script = NoLocals
    /\ views = NoViews
    /\ fetches = 0
    /\ args \in DisplayArgs
    /\ result = NoResult

DisplayUnchanged ==
    UNCHANGED <<unit, patient, formData, loading, error, success, pc, requests, idx,
                errors, timer, closed, edits, script, views, fetches, args, instance>>

\* a row of PatientObservations is rendered
CallGetObservationDisplay ==
    /\ unit = "display"
    /\ args.fn = "getObservationDisplay"
    /\ ~result.returned
    /\ result' = [returned |-> TRUE, value |-> getObservationDisplay(args.obs)]
    /\ DisplayUnchanged

\* PatientObservations is rendered with its observations
CallGroupObservations ==
    /\ unit = "display"
    /\ args.fn = "groupObservations"
    /\ ~result.returned
    /\ result' = [returned |-> TRUE, value |-> groupObservations(args.observations)]
    /\ DisplayUnchanged

\* the birth date of a patient card is rendered
CallFormatDate ==
    /\ unit = "display"
    /\ args.fn = "formatDate"
    /\ ~result.returned
    /\ result' = [returned |-> TRUE, value |-> formatDate(args)]
    /\ DisplayUnchanged

\* a date of a diagnostic report is rendered
CallFormatDateTime ==
    /\ unit = "display"
    /\ args.fn = "formatDateTime"
    /\ ~result.returned
    /\ result' = [returned |-> TRUE, value |-> formatDateTime(args)]
    /\ DisplayUnchanged

\* a row of PatientMedications is rendered
CallGetMedicationDisplay ==
    /\ unit = "display"
    /\ args.fn = "getMedicationDisplay"
    /\ ~result.returned
    /\ result' = [returned |-> TRUE, value |-> getMedicationDisplay(args.medication)]
    /\ DisplayUnchanged

----------------------------------------------------------------------------
(* The specification *)

Init == InitLabValueForm \/ InitConsultationForm \/ InitScript

Next ==
    \/ LabHandleChange
    \/ LabHandleSubmit
    \/ LabFetchSettles
    \/ LabBodyRead
    \/ ConsultHandleChange
    \/ ConsultHandleSubmit
    \/ ConsultFetchSettles
    \/ ConsultBodyRead
    \/ TimerFires
    \/ OnClose
    \/ ScriptStart
    \/ ScriptPatientsFetched
    \/ ScriptResourcesFetched
    \/ ScriptDeleted
    \/ ScriptCreated

Spec == Init /\ [][Next]_vars

\* The builders on every form a user can have filled in: the form as it
\* stands when Submit is pressed, and the submit handlers.
LabForms ==
    { [gfr |-> g, hemoglobin |-> h, effectiveDateTime |-> d] :
        g \in LabInputs, h \in LabInputs, d \in Dates }

ConsultForms ==
    { [date |-> d, chiefComplaint |-> t[1], historyOfPresentIllness |-> t[2],
       physicalExamination |-> t[3], assessment |-> t[4], plan |-> t[5], notes |-> t[6]] :
        d \in Dates, t \in [1..6 -> ConsultInputs] }

InitFilled ==
    /\ \/ unit = "LabValueForm" /\ formData \in LabForms
       \/ unit = "ConsultationForm" /\ formData \in ConsultForms
    /\ patient \in Patients
    /\ loading = FALSE
    /\ error = NoError
    /\ success = FALSE
    /\ pc = "idle"
    /\ requests = << >>
    /\ idx = 0
    /\ errors = << >>
    /\ timer = {}
    /\ instance = 1
    /\ closed = FALSE
    /\ edits = 0
    /\ script = NoLocals
    /\ views = NoViews
    /\ fetches = 0
    /\ args = NoArgs
    /\ result = NoResult

NextBuilders == LabHandleSubmit \/ ConsultHandleSubmit

SpecBuilders == InitFilled /\ [][NextBuilders]_vars

\* the seed script on its own; every fetch it awaits settles and the script
\* then runs on to its next await
NextScript ==
    \/ ScriptStart
    \/ ScriptPatientsFetched
    \/ ScriptResourcesFetched
    \/ ScriptDeleted
    \/ ScriptCreated

SpecScript == InitScript /\ [][NextScript]_vars /\ WF_vars(NextScript)

\* The list views of the page: PatientList and the sections of a card.
NextViews ==
    \/ ViewMount
    \/ ViewRefresh
    \/ ViewExpand
    \/ ViewHide
    \/ ViewRetry
    \/ ViewResponse

SpecViews == InitViews /\ [][NextViews]_vars

\* the display functions, each called once on any resource
InitReopen == InitLabValueForm \/ InitConsultationForm

NextReopen ==
    \/ LabHandleChange
    \/ LabHandleSubmit
    \/ LabFetchSettles
    \/ LabBodyRead
    \/ ConsultHandleChange
    \/ ConsultHandleSubmit
    \/ ConsultFetchSettles
    \/ ConsultBodyRead
    \/ TimerFires
    \/ OnClose
    \/ OpenForm

SpecReopen == InitReopen /\ [][NextReopen]_vars

NextDisplay ==
    \/ CallGetObservationDisplay
    \/ CallGroupObservations
    \/ CallFormatDate
    \/ CallFormatDateTime
    \/ CallGetMedicationDisplay

SpecDisplay == InitDisplay /\ [][NextDisplay]_vars

----------------------------------------------------------------------------
(* What the claims speak of *)

Lab == unit = "LabValueForm"

Consult == unit = "ConsultationForm"

\* a field left blank: nothing, or white space only
IsBlank(s) == \A i \in DOMAIN s : s[i] \in WhiteSpace

\* s is written as a decimal number: an optional minus sign, digits, and at
\* most one decimal point
IsDecimal(s) ==
    LET u == IF s # << >> /\ Head(s) = "-" THEN Tail(s) ELSE s
    IN  /\ \E i \in DOMAIN u : IsDigit(u[i])
        /\ \A i \in DOMAIN u : IsDigit(u[i]) \/ u[i] = "."
        /\ Cardinality({i \in DOMAIN u : u[i] = "."}) <= 1

\* the number a decimal s denotes, in units of 10^-FracDigits
DecimalValue(s) ==
    LET neg == Head(s) = "-"
        u == IF neg THEN Tail(s) ELSE s
        points == {i \in DOMAIN u : u[i] = "."}
        p == IF points = {} THEN Len(u) + 1 ELSE CHOOSE i \in points : TRUE
        mag == DigitsValue(SubSeq(u, 1, p - 1)) * Scale
                  + FractionValue(SubSeq(u, p + 1, Len(u)))
    IN  IF neg THEN 0 - mag ELSE mag

\* s is a non-blank, non-negative number
EntersNumber(s) == ~IsBlank(s) /\ IsDecimal(s) /\ DecimalValue(s) >= 0

\* the observation the claims expect of one lab field
ExpectedObservation(loinc, unitName, s) ==
    [loinc |-> loinc, unit |-> unitName, value |-> Num(DecimalValue(s))]

\* obs is as the claims describe it for the expectation e and the form date
IsExpected(obs, e, date) ==
    /\ obs.resourceType = "Observation"
    /\ obs.status = "final"
    /\ obs.code.coding[1].system = "http://loinc.org"
    /\ obs.code.coding[1].code = e.loinc
    /\ obs.valueQuantity.unit = e.unit
    /\ obs.valueQuantity.system = "http://unitsofmeasure.org"
    /\ obs.valueQuantity.value = e.value
    /\ obs.effectiveDateTime = date

\* the requests are POSTs of exactly the expected observations, in order
PostsExactly(reqs, expected, date) ==
    /\ Len(reqs) = Len(expected)
    /\ \A i \in DOMAIN reqs :
          /\ reqs[i].method = "POST"
          /\ reqs[i].url = <<FHIR_BASE_URL, "/", "Observation">>
          /\ IsExpected(reqs[i].body, expected[i], date)

\* the lab form passes validation: no provided field is non-numeric or
\* negative, and not both fields are blank
LabInputsValid(fd) ==
    /\ IsBlank(fd.gfr) \/ EntersNumber(fd.gfr)
    /\ IsBlank(fd.hemoglobin) \/ EntersNumber(fd.hemoglobin)
    /\ ~(IsBlank(fd.gfr) /\ IsBlank(fd.hemoglobin))

LabValidationMessages ==
    { <<"GFR must be a valid positive number">>,
      <<"Hemoglobin must be a valid positive number">>,
      <<"Please enter at least one lab value">> }

----------------------------------------------------------------------------
(* C1 *)

\* C1, as stated: for every pair of inputs, handleSubmit produces exactly
\* one Observation per field that is non-blank and a non-negative number
\* (GFR before Hemoglobin), whatever the other field holds.
C1_OnePerValidField ==
    [][LabHandleSubmit =>
        PostsExactly(requests',
            (IF EntersNumber(formData.gfr)
             THEN <<ExpectedObservation("33914-3", "mL/min/1.73m2", formData.gfr)>>
             ELSE << >>)
            \o (IF EntersNumber(formData.hemoglobin)
                THEN <<ExpectedObservation("718-7", "g/dL", formData.hemoglobin)>>
                ELSE << >>),
            formData.effectiveDateTime)]_vars

\* C1, amended: for every pair of inputs that passes validation, handleSubmit
\* produces exactly one Observation per non-blank field (one or two, GFR
\* before Hemoglobin), each with status final, LOINC 33914-3 and unit
\* mL/min/1.73m2 for GFR or LOINC 718-7 and unit g/dL for Hemoglobin, unit
\* system http://unitsofmeasure.org, the entered number as
\* valueQuantity.value and the form date as effectiveDateTime; for every
\* other pair it produces none.
C1_OnePerFieldWhenValid ==
    [][LabHandleSubmit =>
        IF LabInputsValid(formData)
        THEN PostsExactly(requests',
                (IF ~IsBlank(formData.gfr)
                 THEN <<ExpectedObservation("33914-3", "mL/min/1.73m2", formData.gfr)>>
                 ELSE << >>)
                \o (IF ~IsBlank(formData.hemoglobin)
                    THEN <<ExpectedObservation("718-7", "g/dL", formData.hemoglobin)>>
                    ELSE << >>),
                formData.effectiveDateTime)
        ELSE requests' = << >>]_vars

\* two observations are in flight for gfr 90.0 and hemoglobin 0
C1_Witness ==
    /\ Lab /\ pc = "awaiting" /\ Len(requests) = 2
    /\ formData.gfr = <<"9", "0", ".", "0">>
    /\ formData.hemoglobin = <<"0">>
    /\ requests[1].body.valueQuantity.value = Num(90 * Scale)
    /\ requests[2].body.valueQuantity.value = Num(0)

----------------------------------------------------------------------------
(* C2 *)

\* C2: if a provided gfr or hemoglobin value is non-numeric or negative, or
\* both fields are blank, handleSubmit ends with a validation error in the
\* error state and issues no POST at all, also none for a valid other field.
C2_ValidationBlocksSubmission ==
    [][(LabHandleSubmit /\ ~LabInputsValid(formData)) =>
        /\ requests' = << >>
        /\ error' \in LabValidationMessages
        /\ pc' = "settled"
        /\ ~loading'
        /\ ~success']_vars

\* a valid GFR next to a negative hemoglobin: the error is shown and nothing
\* was posted
C2_Witness ==
    /\ Lab /\ pc = "settled" /\ ~closed
    /\ formData.gfr = <<"1", "4", ".", "5">>
    /\ formData.hemoglobin = <<"-", "1">>
    /\ error = <<"Hemoglobin must be a valid positive number">>
    /\ requests = << >>

----------------------------------------------------------------------------
(* C3 *)

ThreeBlank(fd) ==
    IsBlank(fd.chiefComplaint) /\ IsBlank(fd.assessment) /\ IsBlank(fd.plan)

\* C3: if chief complaint, assessment and plan are all blank, the submission
\* fails with a validation error and no POST is issued, whatever the other
\* three fields hold; a Composition is POSTed only if one of the three is
\* non-blank.
C3_RequiresComplaintAssessmentOrPlan ==
    [][ConsultHandleSubmit =>
        /\ ThreeBlank(formData) =>
              /\ requests' = << >>
              /\ error' # NoError
              /\ ~success'
        /\ requests' # << >> => ~ThreeBlank(formData)]_vars

----------------------------------------------------------------------------
(* C4 *)

\* the LOINC codes the claim gives, in its order of the fields
ClaimedSections ==
    << [field |-> "chiefComplaint", loinc |-> "10154-3"],
       [field |-> "historyOfPresentIllness", loinc |-> "10164-2"],
       [field |-> "physicalExamination", loinc |-> "29545-1"],
       [field |-> "assessment", loinc |-> "51848-0"],
       [field |-> "plan", loinc |-> "18776-5"],
       [field |-> "notes", loinc |-> "11506-3"] >>

NonBlankSections(fd) == SelectSeq(ClaimedSections, LAMBDA c : ~IsBlank(fd[c.field]))

SubmittedCompositions ==
    { requests[i].body : i \in {j \in DOMAIN requests :
                                   requests[j].body.resourceType = "Composition"} }

\* C4: for every combination of the six section bodies, the composition has
\* exactly one section per non-blank field and none for a blank field, in
\* the order chief complaint, history of present illness, physical
\* examination, assessment, plan, notes, each with its LOINC code and with
\* text.div wrapping the raw field text in an XHTML div.
C4_OneSectionPerNonBlankField ==
    \A c \in SubmittedCompositions :
        LET expected == NonBlankSections(formData)
        IN  /\ Len(c.section) = Len(expected)
            /\ \A k \in DOMAIN c.section :
                  /\ c.section[k].code.coding[1].system = "http://loinc.org"
                  /\ c.section[k].code.coding[1].code = expected[k].loinc
                  /\ c.section[k].text.div
                        = <<"<div xmlns=\"http://www.w3.org/1999/xhtml\">">>
                             \o formData[expected[k].field] \o <<"</div>">>

----------------------------------------------------------------------------
(* C7 *)

\* tokens that are markup when they stand in the content of an element
Markup == {"<div xmlns=\"http://www.w3.org/1999/xhtml\">", "<div>", "</div>", "<", "&"}

\* one opening div, character data, one closing div
WellFormedDiv(div) ==
    /\ Len(div) >= 2
    /\ div[1] = "<div xmlns=\"http://www.w3.org/1999/xhtml\">"
    /\ div[Len(div)] = "</div>"
    /\ \A k \in 2..(Len(div) - 1) : div[k] \notin Markup

\* C7: every Composition POSTed by ConsultationForm has a non-empty
\* section list, and each section's text.div is one well-formed XHTML
\* fragment: an opening div, the text, the matching closing div, no
\* unbalanced or unescaped markup brought in by the text.
C7_SectionsWellFormed ==
    \A c \in SubmittedCompositions :
        /\ c.section # << >>
        /\ \A k \in DOMAIN c.section : WellFormedDiv(c.section[k].text.div)

----------------------------------------------------------------------------
(* C8 *)

\* the lab fields the Observation builder accepted, as the claim's expected
\* value strings: the entered number, a space, the unit
EnteredLabValues(fd) ==
    (IF ~IsBlank(fd.gfr)
     THEN <<NumberToString(Num(DecimalValue(fd.gfr))) \o <<" ", "mL/min/1.73m2">> >>
     ELSE << >>)
    \o (IF ~IsBlank(fd.hemoglobin)
        THEN <<NumberToString(Num(DecimalValue(fd.hemoglobin))) \o <<" ", "g/dL">> >>
        ELSE << >>)

\* the section texts the Composition builder accepted, in order
EnteredSectionTexts(fd) ==
    LET fields == SelectSeq(SectionFields, LAMBDA f : fd[f] # << >>)
    IN  [k \in DOMAIN fields |-> fd[fields[k]]]

\* C8: round trip. getObservationDisplay of a built Observation gives the
\* value string '{entered value} {unit}', and extractTextFromDiv of a built
\* section's text.div gives back the entered text exactly.
C8_RoundTrip ==
    /\ (Lab /\ requests # << >>) =>
          \A i \in DOMAIN requests :
              getObservationDisplay(requests[i].body).value = EnteredLabValues(formData)[i]
    /\ \A c \in SubmittedCompositions :
          \A k \in DOMAIN c.section :
              extractTextFromDiv(c.section[k].text.div) = EnteredSectionTexts(formData)[k]

----------------------------------------------------------------------------
(* C9 *)

\* handleSubmit comes to its end in this step, the form still mounted
SubmitEnds == pc # "settled" /\ pc' = "settled" /\ ~closed

\* the POST got a response with a non-2xx status
NonOk(r) == r.outcome.state = "resolved" /\ ~r.outcome.ok

\* C9: when a POST of either form returns a non-2xx status, the error state
\* holds a string with the HTTP status code and, if the body has
\* issue[0].diagnostics, that string; if the body cannot be parsed or has
\* no diagnostics, the error still holds the status code; and the form does
\* not enter the success state.
C9_ErrorCarriesStatus ==
    [][SubmitEnds =>
        \A i \in DOMAIN requests' :
            NonOk(requests'[i]) =>
                /\ Contains(error', ToString(requests'[i].outcome.status))
                /\ requests'[i].outcome.body.kind = "object"
                     /\ requests'[i].outcome.body.diagnostics # ""
                     => Contains(error', requests'[i].outcome.body.diagnostics)
                /\ ~success']_vars

----------------------------------------------------------------------------
(* C10 *)

\* the POST did not succeed: no response, or a non-2xx one
Failed(r) == r.outcome.state = "rejected" \/ NonOk(r)

\* C10: in a two-Observation submission where at least one POST fails, the
\* form reports one aggregated error that lists every failed item in
\* submission order, the success state is not entered, and no request is
\* issued to delete or undo an Observation whose POST succeeded.
C10_AggregatedError ==
    [][(SubmitEnds /\ Lab /\ Len(requests') = 2
            /\ \E i \in DOMAIN requests' : Failed(requests'[i])) =>
        /\ ~success'
        /\ \A i \in DOMAIN requests' :
              /\ requests'[i].method = "POST"
              /\ Failed(requests'[i]) => Contains(error', requests'[i].body.code.text)
        /\ (Failed(requests'[1]) /\ Failed(requests'[2])) =>
              \E m, n \in DOMAIN error' :
                  /\ m < n
                  /\ error'[m] = requests'[1].body.code.text
                  /\ error'[n] = requests'[2].body.code.text]_vars

----------------------------------------------------------------------------
(* C5 *)

\* the Observations and Compositions among the requests that are POSTs
PostedClinicalResources ==
    { requests[i].body : i \in {j \in DOMAIN requests :
                                   /\ requests[j].method = "POST"
                                   /\ requests[j].body.resourceType
                                         \in {"Observation", "Composition"}} }

\* the performer of an Observation, the author of a Composition
Responsible(resource) ==
    IF resource.resourceType = "Observation" THEN resource.performer ELSE resource.author

\* C5: every Observation and every Composition POSTed by LabValueForm, by
\* ConsultationForm or by the seed script has subject.reference
\* Patient/{id of the target patient} and a performer (Observation) or
\* author (Composition) reference Organization/53655767.
C5_SubjectAndOrganization ==
    \A resource \in PostedClinicalResources :
        /\ resource.subject.reference = <<"Patient/", patient.id>>
        /\ Responsible(resource) # << >>
        /\ \A k \in DOMAIN Responsible(resource) :
              Responsible(resource)[k].reference = <<"Organization/", "53655767">>

\* the seed script is posting a Composition for the patient the server
\* has filed under 202
C5_Witness ==
    /\ unit = "script"
    /\ pc = "creating"
    /\ patient.id = "202"
    /\ requests[1].method = "POST"
    /\ requests[1].body.resourceType = "Composition"
    /\ requests[1].body.subject.reference = <<"Patient/", "202">>

----------------------------------------------------------------------------
(* C6 *)

PostedObservations ==
    { resource \in PostedClinicalResources : resource.resourceType = "Observation" }

\* the codes of the codings of the category entries of an Observation
CategoryCodes(obs) ==
    [k \in DOMAIN obs.category |->
        [c \in DOMAIN obs.category[k].coding |-> obs.category[k].coding[c].code]]

\* C6, as stated: every Observation created by LabValueForm or by the seed
\* script has exactly one category entry, with code 'laboratory'.
C6_OneLaboratoryCategory ==
    \A obs \in PostedObservations : CategoryCodes(obs) = << <<"laboratory">> >>

\* C6, amended: every Observation created by LabValueForm or by the seed
\* script has exactly one category entry; its code is 'laboratory' for the
\* Observations of LabValueForm and 'vital-signs' for the blood pressure
\* Observations of the seed script.
C6_OneCategoryByOrigin ==
    \A obs \in PostedObservations :
        CategoryCodes(obs) = IF Lab THEN << <<"laboratory">> >> ELSE << <<"vital-signs">> >>

\* the seed script is posting the blood pressure reading 205/112
C6_Witness ==
    /\ unit = "script"
    /\ pc = "creating"
    /\ requests[1].method = "POST"
    /\ requests[1].body.resourceType = "Observation"
    /\ requests[1].body.component[1].valueQuantity.value = Num(205 * Scale)
    /\ CategoryCodes(requests[1].body) = << <<"vital-signs">> >>

----------------------------------------------------------------------------
(* C11 *)

\* the requests of the batch that have not settled yet
Outstanding(reqs) == {i \in DOMAIN reqs : reqs[i].outcome.state = "pending"}

\* C11: the Observation batch has at most two POSTs outstanding at a time,
\* and handleSubmit reports its outcome (success or error) only when every
\* POST of the batch has completed: it never ends while a request of the
\* batch is still outstanding.
C11_OutcomeAfterWholeBatch ==
    [][Lab =>
        /\ Cardinality(Outstanding(requests')) <= 2
        /\ SubmitEnds => Outstanding(requests') = {}]_vars

----------------------------------------------------------------------------
(* C12 *)

\* the GETs of a view that have not settled yet
OutstandingGets(vs) == {i \in DOMAIN vs.requests : vs.requests[i].outcome.state = "pending"}

\* the GETs of a view that have settled; at most the latest one is kept
SettledGets(vs) == {i \in DOMAIN vs.requests : vs.requests[i].outcome.state # "pending"}

\* in this step a GET of view v gets its response and the fetch function
\* of v runs to its end
ResponseStep(v) ==
    /\ SettledGets(views'[v]) # {}
    /\ \A i \in SettledGets(views'[v]) :
          \E j \in OutstandingGets(views[v]) :
              views[v].requests[j].issued = views'[v].requests[i].issued

\* the response a view has handled last
LastResponse(vs) == vs.requests[CHOOSE i \in SettledGets(vs) : TRUE].outcome.body

\* the response is a 2xx one with a Bundle for a body
IsBundle(r) == r.kind = "bundle" /\ r.status \in 200..299

NoEntries(data) == "entry" \notin DOMAIN data \/ data.entry = << >>

\* C12: for every list view, a 2xx GET whose Bundle has no entry field or
\* an empty entry sets the view's list to empty with error null; otherwise
\* the list is the sequence entry[i].resource in the server's order.
C12_ListFromBundle ==
    [][\A v \in Views :
          (ResponseStep(v) /\ IsBundle(LastResponse(views'[v]))) =>
              LET data == LastResponse(views'[v]).data
              IN  IF NoEntries(data)
                  THEN views'[v].list = << >> /\ views'[v].error = NoError
                  ELSE /\ Len(views'[v].list) = Len(data.entry)
                       /\ \A i \in DOMAIN data.entry :
                             views'[v].list[i] = data.entry[i].resource]_vars

----------------------------------------------------------------------------
\* the GET failed: the fetch rejected, the status is not 2xx, or the body
\* is not JSON
IsFailure(r) == r.kind = "rejected" \/ r.status \notin 200..299 \/ r.kind = "unparseable"

\* C13: a failure of a view's GET (rejected fetch, non-2xx status,
\* unparseable body) is handled inside the view's fetch function: the
\* view's error is the message of that failure, its loading is false, and
\* no other view's state changes.
C13_FailureStaysInView ==
    [][\A v \in Views :
          (ResponseStep(v) /\ IsFailure(LastResponse(views'[v]))) =>
              LET r == LastResponse(views'[v])
              IN  /\ views'[v].error # NoError
                  /\ r.kind = "rejected" => views'[v].error = <<"Failed to fetch">>
                  /\ r.status \notin {0} \cup (200..299) =>
                        Contains(views'[v].error, ToString(r.status))
                  /\ ~views'[v].loading
                  /\ \A w \in Views \ {v} : views'[w] = views[w]]_vars

\* a section has failed while PatientList shows its patients
C13_Witness ==
    \E v \in SubViews :
        /\ SettledGets(views[v]) # {}
        /\ IsFailure(LastResponse(views[v]))
        /\ views[v].error # NoError
        /\ ~views[v].loading
        /\ views["PatientList"].list # << >>
        /\ views["PatientList"].error = NoError

----------------------------------------------------------------------------
\* the GETs of a view, by their number
IssuedGets(vs) == {vs.requests[i].issued : i \in DOMAIN vs.requests}

\* the step starts a GET of view v
StartsGet(v) == IssuedGets(views'[v]) \ IssuedGets(views[v]) # {}

\* what the user can press to make view v fetch: Refresh or Retry of
\* PatientList (shown when it is not loading), View of a hidden section,
\* Retry of an expanded section that shows its error
UserStartsGet(v) ==
    IF v = "PatientList"
    THEN ~views[v].loading
    ELSE \/ ~views[v].expanded /\ views'[v].expanded
         \/ views[v].expanded /\ ~views[v].loading /\ views[v].error # NoError

\* C14: there is no automatic retry. The step that handles a failed GET
\* starts no GET, and after the first load a GET is started only by a user
\* action (Retry, Refresh, expanding a section again).
C14_NoAutomaticRetry ==
    [][/\ \A v \in Views :
             (ResponseStep(v) /\ IsFailure(LastResponse(views'[v]))) =>
                 \A w \in Views : ~StartsGet(w)
       /\ \A v \in Views :
             (StartsGet(v) /\ fetches > 0) =>
                 /\ UserStartsGet(v)
                 /\ \A w \in Views : ~ResponseStep(w)]_vars

\* PatientList has failed twice, the second time after Retry, and nothing
\* is outstanding
C14_Witness ==
    /\ fetches = 2
    /\ views["PatientList"].error # NoError
    /\ ~views["PatientList"].loading
    /\ \A v \in Views : OutstandingGets(views[v]) = {}

----------------------------------------------------------------------------
\* the resource sequence of a Bundle
ResourceSequence(data) ==
    IF "entry" \in DOMAIN data THEN [i \in DOMAIN data.entry |-> data.entry[i].resource]
    ELSE << >>

\* C15: a successful fetch replaces the view's list wholesale, whatever the
\* list held before; the list is always the initial empty list or exactly
\* the resource sequence of one response, and only a successful fetch (or
\* the unmounting of the view) changes it.
C15_ListReplacedWholesale ==
    [][\A v \in Views :
          /\ (ResponseStep(v) /\ IsBundle(LastResponse(views'[v]))) =>
                views'[v].list = ResourceSequence(LastResponse(views'[v]).data)
          /\ \/ views'[v].list = << >>
             \/ \E d \in Bundles(v) : views'[v].list = ResourceSequence(d)
          /\ views'[v].list # views[v].list =>
                \/ ResponseStep(v) /\ IsBundle(LastResponse(views'[v]))
                \/ views'[v] = InitialView(v)]_vars

\* the second GET of a section, the third of the page, has brought the
\* section a Bundle with one resource
C15_Witness ==
    \E v \in SubViews :
        /\ fetches = 3
        /\ OutstandingGets(views[v]) = {}
        /\ \E i \in SettledGets(views[v]) :
              /\ views[v].requests[i].issued = 2
              /\ IsBundle(views[v].requests[i].outcome.body)
        /\ Len(views[v].list) = 1
        /\ ~views[v].loading

----------------------------------------------------------------------------
\* the script handles the response of a DELETE in this step
DeleteSettles == unit = "script" /\ pc \in {"deleting", "deletingPatient"}

\* the DELETE that got its response failed: no 2xx status, or no response
DeleteFailed == script'.response \in {"rejected", "404", "failed"}

\* the step sends the DELETE of the same resource again without cascade
RetriesWithoutCascade ==
    /\ Len(requests') = 1
    /\ requests'[1].method = "DELETE"
    /\ requests[1].url = requests'[1].url \o <<"?_cascade=delete">>
    /\ script'.attempts = 2

\* the step ends the call of deleteResource
DeleteReturns == DeleteSettles /\ script'.attempts # script.attempts + 1

\* C16: deleteResource called with cascade: when the cascade DELETE fails
\* (non-2xx response or transport error) the DELETE is sent once more
\* without _cascade=delete; when that fails too the call returns false. A
\* call sends at most two DELETEs and always returns a boolean.
C16_CascadeRetriedOnce ==
    [][DeleteSettles =>
          /\ (script.cascade /\ DeleteFailed) => RetriesWithoutCascade
          /\ (script.attempts = 2 /\ DeleteFailed) =>
                DeleteReturns /\ script'.returned = <<FALSE>>
          /\ script.attempts <= 2
          /\ DeleteReturns => script'.returned \in {<<TRUE>>, <<FALSE>>}]_vars

----------------------------------------------------------------------------
ClaimedOrder ==
    <<"DiagnosticReport", "ServiceRequest", "MedicationRequest", "Procedure",
      "Composition", "Observation", "Condition">>

\* the place of a resource type in the cleanup of a patient; the Patient
\* itself comes after the seven types, and 0 stands for no type of the cleanup
Rank(resourceType) ==
    IF resourceType = "Patient" THEN Len(ClaimedOrder) + 1
    ELSE IF \E k \in DOMAIN ClaimedOrder : ClaimedOrder[k] = resourceType
    THEN CHOOSE k \in DOMAIN ClaimedOrder : ClaimedOrder[k] = resourceType
    ELSE 0

\* a search of the resources of one patient, and a DELETE
IsSearch(q) == q.method = "GET" /\ Len(q.url) = 6 /\ q.url[4] = "?subject=Patient/"
IsDelete(q) == q.method = "DELETE"
TypeOf(q) == q.url[3]

\* the script sends a request of the cleanup in this step
CleanupRequest ==
    /\ unit = "script"
    /\ requests' # << >>
    /\ requests' # requests
    /\ IsSearch(requests'[1]) \/ IsDelete(requests'[1])

\* C17: for each patient the cleanup goes through the types in the order
\* DiagnosticReport, ServiceRequest, MedicationRequest, Procedure,
\* Composition, Observation, Condition: the search of a type follows the
\* pass of the type before it, a resource is deleted within the pass of its
\* type, and the Patient DELETE is sent only after the seventh pass.
C17_TypesInOrderThenPatient ==
    [][CleanupRequest =>
          LET q == requests[1]
              n == requests'[1]
          IN  IF IsSearch(n)
              THEN \/ /\ Rank(TypeOf(n)) = 1
                      /\ \/ q.method = "GET" /\ ~IsSearch(q)
                         \/ IsDelete(q) /\ TypeOf(q) = "Patient" /\ q.url[5] # n.url[5]
                   \/ /\ Rank(TypeOf(q)) > 0
                      /\ Rank(TypeOf(n)) = Rank(TypeOf(q)) + 1
                      /\ IsSearch(q) => q.url[5] = n.url[5]
              ELSE IF TypeOf(n) = "Patient"
              THEN \/ Rank(TypeOf(q)) = Len(ClaimedOrder)
                   \/ IsDelete(q) /\ TypeOf(q) = "Patient" /\ q.url[5] = n.url[5]
              ELSE TypeOf(q) = TypeOf(n)]_vars

\* the Patient DELETE of the second patient is outstanding, after resources
\* of that patient have been deleted
C17_Witness ==
    /\ unit = "script"
    /\ pc = "deletingPatient"
    /\ Len(ExistingPatients) >= 2
    /\ requests[1].url[5] = ExistingPatients[2]
    /\ script.returned # << >>

----------------------------------------------------------------------------
\* the DELETE carries _cascade=delete
HasCascade(q) == q.url[Len(q.url)] = "?_cascade=delete"

\* the DELETE the cleanup has outstanding
CleanupDelete == unit = "script" /\ requests # << >> /\ IsDelete(requests[1])

\* C18: during the cleanup _cascade=delete is sent only for Condition and
\* Procedure; every other type is deleted without cascade.
C18_CascadeOnlyConditionProcedure ==
    (CleanupDelete /\ HasCascade(requests[1])) =>
        TypeOf(requests[1]) \in {"Condition", "Procedure"}

\* C18, amended: _cascade=delete is sent only for Condition, Procedure and
\* the Patient itself, on the first DELETE of a resource; the five other
\* types, and every second DELETE of a resource, go without cascade.
C18_CascadeConditionProcedurePatient ==
    CleanupDelete =>
        HasCascade(requests[1]) <=>
            /\ TypeOf(requests[1]) \in {"Condition", "Procedure", "Patient"}
            /\ script.attempts = 1

\* the cascade DELETE of a Patient is outstanding after the passes over
\* the patient's resources have deleted some
C18_Witness ==
    /\ CleanupDelete
    /\ HasCascade(requests[1])
    /\ TypeOf(requests[1]) = "Patient"
    /\ script.response = "ok"

----------------------------------------------------------------------------
\* the resources of the pass that come after the one just handled
RemainingIds == SelectSeq(Tail(script.entries), LAMBDA e : e # "")

\* the DELETE outstanding gets its response, failure or not, and is not
\* sent again without cascade
DeleteOver ==
    /\ DeleteSettles
    /\ ~(/\ Len(requests') = 1
          /\ IsDelete(requests'[1])
          /\ requests[1].url = requests'[1].url \o <<"?_cascade=delete">>)

\* the request the cleanup goes on with after the DELETE it has outstanding
GoesOn ==
    /\ pc' # "exited"
    /\ Len(requests') = 1
    /\ LET n == requests'[1]
       IN  IF pc = "deleting" /\ RemainingIds # << >>
           THEN IsDelete(n) /\ TypeOf(n) = TypeOf(requests[1]) /\ n.url[5] = Head(RemainingIds)
           ELSE IF pc = "deleting" /\ Rank(TypeOf(requests[1])) < Len(ClaimedOrder)
           THEN /\ IsSearch(n)
                /\ Rank(TypeOf(n)) = Rank(TypeOf(requests[1])) + 1
                /\ n.url[5] = Head(script.patients)
           ELSE IF pc = "deleting"
           THEN IsDelete(n) /\ TypeOf(n) = "Patient" /\ n.url[5] = Head(script.patients)
           ELSE IF Tail(script.patients) # << >>
           THEN IsSearch(n) /\ Rank(TypeOf(n)) = 1 /\ n.url[5] = script.patients[2]
           ELSE n.method = "POST" /\ n.body.resourceType = "Patient"

\* C19: a failed DELETE is not fatal. Whatever a DELETE answers, the
\* cleanup goes on with the next resource of the pass, else the next type,
\* else the Patient, else the next patient, else the creation phase; and
\* once a DELETE is outstanding the creation phase does start.
C19_DeleteFailureNotFatal ==
    /\ [][DeleteOver => GoesOn]_vars
    /\ DeleteSettles ~> (pc = "creating")

\* the creation phase has started after the Patient DELETE of the last
\* patient failed
C19_Witness ==
    /\ unit = "script"
    /\ pc = "creating"
    /\ idx = 0
    /\ script.returned = <<FALSE>>
    /\ script.response \in {"failed", "rejected"}

----------------------------------------------------------------------------
\* the ids the creation responses have brought so far, by resource type
CreatedConditionIds ==
    {script.created.carotidStenosisId, script.created.cadConditionId,
     script.created.hypertensionId} \ {""}

CreatedOrderIds ==
    {script.created.createdEcgOrder, script.created.createdStressTestOrder,
     script.created.createdCathOrder, script.created.createdCarotidUsOrder} \ {""}

\* the resource refers only to resources whose creation has been answered
RefersToCreated(b) ==
    /\ b.resourceType # "Patient" =>
          patient.id # "" /\ b.subject.reference = <<"Patient/", patient.id>>
    /\ b.resourceType \in {"Procedure", "MedicationRequest", "ServiceRequest"} =>
          /\ "reasonReference" \in DOMAIN b
          /\ \A j \in DOMAIN b.reasonReference :
                /\ b.reasonReference[j].reference[1] = "Condition/"
                /\ b.reasonReference[j].reference[2] \in CreatedConditionIds
    /\ b.resourceType = "DiagnosticReport" =>
          /\ "basedOn" \in DOMAIN b
          /\ \A j \in DOMAIN b.basedOn :
                /\ b.basedOn[j].reference[1] = "ServiceRequest/"
                /\ b.basedOn[j].reference[2] \in CreatedOrderIds

\* C20: the seed script is sequential: it never has more than one request
\* outstanding, and a resource that refers to a server-assigned id (all to
\* the Patient; Procedure, MedicationRequest and ServiceRequest to a
\* Condition; DiagnosticReport to a ServiceRequest) is POSTed only after the
\* creation of the resource it refers to has been answered.
C20_SequentialCreation ==
    unit = "script" =>
        /\ Cardinality(Outstanding(requests)) <= 1
        /\ \A i \in DOMAIN requests :
              requests[i].method = "POST" => RefersToCreated(requests[i].body)

\* the POST of a DiagnosticReport is outstanding, based on a ServiceRequest
\* the server has answered
C20_Witness ==
    /\ unit = "script"
    /\ pc = "creating"
    /\ Outstanding(requests) = {1}
    /\ requests[1].body.resourceType = "DiagnosticReport"
    /\ requests[1].body.basedOn[1].reference[2] = script.created.createdCarotidUsOrder
    /\ script.created.createdCarotidUsOrder # ""

----------------------------------------------------------------------------
\* the text shown for a CodeableConcept x.f of x: the display of its first
\* coding, then its text, then the fallback
ShownText(x, f, fallback) ==
    IF f \notin DOMAIN x THEN fallback
    ELSE IF /\ "coding" \in DOMAIN x[f]
            /\ Len(x[f].coding) > 0
            /\ "display" \in DOMAIN x[f].coding[1]
    THEN x[f].coding[1].display
    ELSE IF "text" \in DOMAIN x[f] THEN x[f].text
    ELSE fallback

\* (b) to (e): the value of an Observation, or of a component, that has no
\* components; a valueString counts when it is not empty
ScalarValue(o) ==
    IF "valueQuantity" \in DOMAIN o
    THEN NumberToString(o.valueQuantity.value) \o <<" ">>
            \o (IF "unit" \in DOMAIN o.valueQuantity THEN <<o.valueQuantity.unit>> ELSE << >>)
    ELSE IF "valueString" \in DOMAIN o /\ o.valueString # ""
    THEN <<o.valueString>>
    ELSE IF "valueCodeableConcept" \in DOMAIN o
    THEN <<ShownText(o, "valueCodeableConcept", "N/A")>>
    ELSE <<"N/A">>

RECURSIVE CodeValuePairs(_)
CodeValuePairs(cs) ==
    IF cs = << >> THEN << >>
    ELSE <<ShownText(Head(cs), "code", "Unknown"), ": ">> \o ScalarValue(Head(cs))
            \o (IF Len(cs) > 1 THEN <<", ">> ELSE << >>) \o CodeValuePairs(Tail(cs))

\* (a) to (e) in their order
ResolvedValue(obs) ==
    IF "component" \in DOMAIN obs /\ obs.component # << >>
    THEN IF /\ Len(obs.component) = 2
            /\ includes(toLowerCase(ShownText(obs, "code", "Unknown")), "blood pressure")
         THEN ScalarValue(obs.component[1]) \o <<"/">> \o ScalarValue(obs.component[2])
         ELSE CodeValuePairs(obs.component)
    ELSE ScalarValue(obs)

\* C21: getObservationDisplay resolves the value in the order (a) components,
\* as 'value/value' for two components under a code text that contains
\* 'blood pressure' in any case and as 'code: value' pairs joined by commas
\* otherwise, (b) valueQuantity as 'value unit', (c) valueString, (d)
\* valueCodeableConcept display then text, (e) 'N/A'.
C21_ValueInPriorityOrder ==
    (unit = "display" /\ args.fn = "getObservationDisplay" /\ result.returned) =>
        /\ result.value.value = ResolvedValue(args.obs)
        /\ ("component" \in DOMAIN args.obs /\ args.obs.component # << >>) =>
              /\ Len(result.value.components) = Len(args.obs.component)
              /\ \A i \in DOMAIN args.obs.component :
                    /\ result.value.components[i].code
                          = ShownText(args.obs.component[i], "code", "Unknown")
                    /\ result.value.components[i].value = ScalarValue(args.obs.component[i])

\* a blood pressure panel whose code text is in capitals and that also
\* carries a valueQuantity is shown as systolic/diastolic
C21_Witness ==
    /\ unit = "display"
    /\ args.fn = "getObservationDisplay"
    /\ result.returned
    /\ "code" \in DOMAIN args.obs
    /\ args.obs.code = [text |-> "BLOOD PRESSURE"]
    /\ "valueQuantity" \in DOMAIN args.obs
    /\ result.value.value = <<"1", "2", "0", " ", "mmHg", "/", "8", "0", " ", "mmHg">>

----------------------------------------------------------------------------
(* C22 *)
Grouped == unit = "display" /\ args.fn = "groupObservations" /\ result.returned

\* the group an Observation belongs to by category[0].coding[0].code
KeyOf(o) ==
    LET first == IF "category" \in DOMAIN o /\ o.category # << >> THEN o.category[1] ELSE << >>
        coding == IF "coding" \in DOMAIN first /\ first.coding # << >> THEN first.coding[1] ELSE << >>
        code == IF "code" \in DOMAIN coding THEN coding.code ELSE "undefined"
    IN  IF code \in {"vital-signs", "laboratory"} THEN code ELSE "other"

GroupNamed(key) ==
    CASE key = "vital-signs" -> result.value.vitalSigns
      [] key = "laboratory"  -> result.value.labObservations
      [] key = "other"       -> result.value.otherObservations

GroupKeys == {"vital-signs", "laboratory", "other"}

\* the places of the input whose Observation has the key, in the order of the input
RECURSIVE PlacesOf(_, _, _)
PlacesOf(list, key, from) ==
    IF from > Len(list) THEN << >>
    ELSE IF KeyOf(list[from]) = key
         THEN <<from>> \o PlacesOf(list, key, from + 1)
         ELSE PlacesOf(list, key, from + 1)

\* C22: the three groups of PatientObservations (vital signs, laboratory, other, by
\* category[0].coding[0].code) are pairwise disjoint, every Observation of the input is in
\* exactly one place of exactly one group, and a group lists its members in the order
\* the server gave them.
C22_GroupsPartitionInOrder ==
    Grouped =>
        /\ \A g, h \in GroupKeys :
              g # h => \A i \in DOMAIN GroupNamed(g), j \in DOMAIN GroupNamed(h) :
                          GroupNamed(g)[i] # GroupNamed(h)[j]
        /\ \A n \in DOMAIN args.observations :
              Cardinality({ <<g, i>> \in GroupKeys \X (1..Len(args.observations)) :
                               /\ i \in DOMAIN GroupNamed(g)
                               /\ GroupNamed(g)[i] = args.observations[n] }) = 1
        /\ \A g \in GroupKeys :
              LET places == PlacesOf(args.observations, g, 1)
              IN  GroupNamed(g) = [i \in DOMAIN places |-> args.observations[places[i]]]

\* three Observations, the first with a vital-signs category followed by a laboratory
\* one, the second without a category, the third a vital sign: the vital signs are the
\* first and the third in that order, and no laboratory group is shown
C22_Witness ==
    /\ Grouped
    /\ Len(args.observations) = 3
    /\ "category" \in DOMAIN args.observations[1]
    /\ Len(args.observations[1].category) = 2
    /\ "category" \notin DOMAIN args.observations[2]
    /\ KeyOf(args.observations[3]) = "vital-signs"
    /\ result.value.vitalSigns = <<args.observations[1], args.observations[3]>>
    /\ result.value.labObservations = << >>
    /\ result.value.otherObservations = <<args.observations[2]>>

----------------------------------------------------------------------------
(* C23 *)
DateFormatted == unit = "display" /\ args.fn \in {"formatDate", "formatDateTime"} /\ result.returned

\* an ISO 8601 calendar date, alone or with a time of day in UTC
IsIsoDate(s) == s \in {"2024-01-15", "2024-03-01", "1985-12-31T23:30:00Z", "2024-07-04T09:05:00Z"}

\* month abbreviation, day and year, as in 'Jan 15, 2024'
StartsWithLocaleDate(s) ==
    \E m \in 1..12, d \in 1..31, y \in {1985, 1986, 2024} :
        LET shown == MonthShort[m] \o " " \o NatString(d) \o ", " \o NatString(y)
        IN  Len(s) >= Len(shown) /\ SubSeq(s, 1, Len(shown)) = shown

\* C23 as stated: formatDate gives 'N/A' for an absent date, a locale-formatted date for
\* a valid ISO date string, and a malformed date string back unchanged.
C23_MalformedDateUnchanged ==
    DateFormatted =>
        IF "dateString" \notin DOMAIN args \/ args.dateString = "" THEN result.value = "N/A"
        ELSE IF IsIsoDate(args.dateString) THEN StartsWithLocaleDate(result.value)
        ELSE result.value = args.dateString

\* what the code does: the first two cases as stated, and 'Invalid Date' for a
\* malformed date string
C23_MalformedDateShownInvalid ==
    DateFormatted =>
        IF "dateString" \notin DOMAIN args \/ args.dateString = "" THEN result.value = "N/A"
        ELSE IF IsIsoDate(args.dateString) THEN StartsWithLocaleDate(result.value)
        ELSE result.value = "Invalid Date"

C23_Reached ==
    /\ DateFormatted
    /\ "dateString" \in DOMAIN args
    /\ args.dateString = "not-a-date"
    /\ result.value = "Invalid Date"

C23_LocalDay ==
    /\ DateFormatted
    /\ args.fn = "formatDateTime"
    /\ "dateString" \in DOMAIN args
    /\ args.dateString = "1985-12-31T23:30:00Z"
    /\ args.offsetHours = 1
    /\ result.value = "Jan 1, 1986, 12:30 AM"

----------------------------------------------------------------------------
(* C24 *)
MedicationShown == unit = "display" /\ args.fn = "getMedicationDisplay" /\ result.returned

FirstInstruction ==
    IF "dosageInstruction" \in DOMAIN args.medication /\ args.medication.dosageInstruction # << >>
    THEN args.medication.dosageInstruction[1]
    ELSE << >>

TextPresent == "text" \in DOMAIN FirstInstruction /\ FirstInstruction.text # ""

RepeatExists ==
    /\ "timing" \in DOMAIN FirstInstruction
    /\ "repeat" \in DOMAIN FirstInstruction.timing

\* '{frequency}x per {periodUnit}', 1 and 'day' standing in for what is missing
IsFrequencyString(s) ==
    \E f \in 1..2, u \in {"d", "wk", "day"} : s = NatString(f) \o "x per " \o u

DisplayedDosage == IF "dosage" \in DOMAIN result.value THEN result.value.dosage ELSE "nothing"

\* C24 as stated: when dosageInstruction[0].text is absent or falsy and timing.repeat
\* exists, the frequency string is never the displayed dosage.
C24_FrequencyNeverUsedWithoutText ==
    (MedicationShown /\ ~TextPresent /\ RepeatExists) => ~IsFrequencyString(DisplayedDosage)

\* C24 amended: whenever timing.repeat exists the displayed dosage is the frequency
\* string, with or without a text; the text of a dosage instruction is never displayed,
\* and a text without a repeat makes getMedicationDisplay throw.
C24_FrequencyUsedTextNeverShown ==
    MedicationShown =>
        /\ RepeatExists => IsFrequencyString(DisplayedDosage)
        /\ (~TextPresent /\ ~RepeatExists) => DisplayedDosage = "As directed"
        /\ (TextPresent /\ ~RepeatExists) => result.value = [throws |-> "TypeError"]
        /\ TextPresent => DisplayedDosage # FirstInstruction.text

\* a MedicationRequest with a repeat of twice per 'd' and no text is shown as '2x per d'
C24_Witness ==
    /\ MedicationShown
    /\ ~TextPresent
    /\ RepeatExists
    /\ "text" \notin DOMAIN FirstInstruction
    /\ "frequency" \in DOMAIN FirstInstruction.timing.repeat
    /\ FirstInstruction.timing.repeat.frequency = 2
    /\ result.value.dosage = "2x per d"

----------------------------------------------------------------------------
(* C25 *)
\* the resources a form has built and handed to fetch
BuiltByForm ==
    IF unit \in {"LabValueForm", "ConsultationForm"}
    THEN { requests[k].body : k \in { j \in DOMAIN requests : requests[j].method = "POST" } }
    ELSE {}

\* given names joined with a space, then the family name, 'Unknown' when nothing is left
NameShown(p) ==
    LET parts == IF p.name = << >> THEN << >>
                 ELSE [i \in DOMAIN p.name[1].given |-> <<p.name[1].given[i]>>]
                        \o (IF p.name[1].family = "" THEN << >> ELSE << <<p.name[1].family>> >>)
    IN  IF parts = << >> THEN <<"Unknown">> ELSE Join(parts, <<" ">>)

\* C25: the subject.display createObservation and createComposition stamp on a
\* resource is the patient's display name (given names joined with a space, then the
\* family name, 'Unknown' when there is no usable name), the one formatPatientName
\* shows in the header of the same form.
C25_SubjectDisplayIsPatientName ==
    \A resource \in BuiltByForm :
        /\ resource.subject.display = NameShown(patient)
        /\ resource.subject.display = formatPatientName(patient)

\* what holds: the two agree whenever the first name entry has a given or a family
\* name, and when there is no name entry at all
C25_SubjectDisplayOfNamedPatient ==
    \A resource \in BuiltByForm :
        /\ formatPatientName(patient) = NameShown(patient)
        /\ (patient.name = << >> \/ patient.name[1].given # << >> \/ patient.name[1].family # "")
              => resource.subject.display = formatPatientName(patient)

C25_EmptyDisplay ==
    /\ BuiltByForm # {}
    /\ patient.id = "103"
    /\ formatPatientName(patient) = <<"Unknown">>
    /\ \A resource \in BuiltByForm : resource.subject.display = << >>

----------------------------------------------------------------------------
(* C26 *)
\* the instances whose timer fires in this step
Fired == timer \ timer'

\* C26: the close a form schedules 1500 ms after a successful submission closes only
\* the instance that scheduled it; a form of the same kind opened for another patient
\* after that instance was closed stays open when the timer fires.
C26_TimerClosesOnlyItsForm ==
    [][(Fired # {} /\ ~closed /\ instance \notin Fired) => ~closed']_vars

\* what the code does: the timer closes whichever form of that kind is open
C26_TimerClosesOpenForm ==
    [][Fired # {} => closed']_vars

\* the form opened second is open while the timer of the first is pending
C26_Reached ==
    /\ instance = 2
    /\ ~closed
    /\ timer = {1}
    /\ patient.id = "102"

----------------------------------------------------------------------------
(* C27 *)
\* C27: in each of the six sub-resource views, whatever the order of expand, hide,
\* retry and responses, loading is true while a GET the view has issued is outstanding,
\* so the view shows neither a list nor its empty state while a request is in flight.
C27_LoadingWhileOutstanding ==
    \A v \in SubViews :
        OutstandingGets(views[v]) # {} =>
            /\ views[v].loading
            /\ ~(views[v].expanded /\ ~views[v].loading /\ views[v].error = NoError)

\* what holds: loading is true from the start of a GET until the first response
\* that arrives after it, whichever GET that response answers
C27_LoadingUntilNextResponse ==
    [][\A v \in SubViews :
          /\ StartsGet(v) => views'[v].loading
          /\ (views[v].loading /\ ~views'[v].loading) => ResponseStep(v)]_vars

\* a view with one GET outstanding that shows the list of an earlier response
C27_Reached ==
    \E v \in SubViews :
        /\ views[v].expanded
        /\ ~views[v].loading
        /\ views[v].error = NoError
        /\ views[v].list # << >>
        /\ OutstandingGets(views[v]) # {}

----------------------------------------------------------------------------
(* C28 *)
\* the state of a view apart from its error, its loading and its GETs
Kept(vs) == [list |-> vs.list, expanded |-> vs.expanded]

\* C28: a failed fetch of a list view leaves the list it has loaded unchanged: of the
\* state the view shows only error and loading change, so the list remains the result
\* of the last successful fetch, or the empty list the view starts with.
C28_FailureKeepsList ==
    [][\A v \in Views :
          (ResponseStep(v) /\ IsFailure(LastResponse(views'[v]))) =>
              /\ views'[v].list = views[v].list
              /\ Kept(views'[v]) = Kept(views[v])
              /\ DOMAIN views'[v] = {"list", "expanded", "error", "loading", "requests"}
              /\ views'[v].list # << >> =>
                    \E d \in Bundles(v) : views'[v].list = ResourceSequence(d)]_vars

\* PatientList keeps the patients of its first GET under the error of a Refresh that failed
C28_Witness ==
    /\ unit = "PatientList"
    /\ views["PatientList"].list # << >>
    /\ views["PatientList"].error # NoError
    /\ ~views["PatientList"].loading
    /\ \E i \in SettledGets(views["PatientList"]) :
          /\ views["PatientList"].requests[i].issued = 2
          /\ IsFailure(views["PatientList"].requests[i].outcome.body)

----------------------------------------------------------------------------
(* C29 *)
FormOpen == unit \in {"LabValueForm", "ConsultationForm"} /\ ~closed

\* handleSubmit of the open form is running: it has started and not yet ended
SubmissionInFlight == FormOpen /\ pc \in {"awaiting", "reading"}

\* the step hands a new batch of POSTs to fetch
IssuesPosts ==
    /\ requests' # requests
    /\ requests' # << >>
    /\ \A i \in DOMAIN requests' :
          requests'[i].method = "POST" /\ requests'[i].outcome.state = "pending"

\* the step starts a submission: handleSubmit enters its try block
SubmissionStarts ==
    /\ FormOpen
    /\ pc \in {"idle", "settled"} /\ instance' = instance
    /\ \/ IssuesPosts
       \/ pc' = "settled" /\ error' # NoError /\ requests' = << >>

----------------------------------------------------------------------------
(* C30 *)
\* the script has the POST of a createResource call outstanding
Creating == unit = "script" /\ pc = "creating" /\ requests # << >>

\* the POST is answered with a failure: the catch block of insertJohnDoeHistory logs
\* the error createResource has thrown
CreateFails == Creating /\ script'.thrown # ""

\* the resources of this run the server has answered with an id so far
CreatedSoFar == {script.created[k] : k \in DOMAIN script.created} \ {""}

\* C30: when a createResource call fails (response that is not 2xx, or transport
\* error) the script sends no further request and ends with a failure exit; it deletes
\* nothing of what it has created in the run.
C30_CreateFailureEndsRun ==
    [][/\ CreateFails => (pc' = "exited" /\ requests' = << >>)
       /\ (Creating /\ pc' \in {"creating", "done"}) => script'.thrown = ""
       /\ (unit = "script" /\ pc = "exited") => (pc' = "exited" /\ requests' = << >>)
       /\ (unit = "script" /\ pc \in {"creating", "exited"}) =>
             \A i \in DOMAIN requests' : requests'[i].method = "POST"]_vars

\* the run has ended because the POST of a resource failed after the Patient of the
\* run had been created
C30_Witness ==
    /\ unit = "script"
    /\ pc = "exited"
    /\ script.thrown \in {"rejected", "not ok"}
    /\ requests = << >>
    /\ patient.id \in ServerIds

============================================================================
